---- MODULE Spec2Model ----
(***************************************************************************)
(* A model of the dynamically updatable Patricia trie dictionary of the    *)
(* LatinIME native decoder: the trie buffer with its extendable tail, the  *)
(* read path (lookup, fetch word, bigram iteration), the mutations         *)
(* (addUnigramWord, addBigramWords, removeBigramWords), the bigram         *)
(* dictionary queries and the flush with garbage collection.               *)
(*                                                                         *)
(* The buffer is a sequence of cells, one cell per serialized field (a     *)
(* flags byte, a 3-byte offset, one code point, ...).  Position p of the   *)
(* dictionary is index p of the sequence; position 0 is the header and is  *)
(* NOT_A_DICT_POS, the root PtNodeArray starts at position 1.              *)
(***************************************************************************)
EXTENDS Integers, Sequences, FiniteSets, TLC

\* ---------------------------------------------------------------- bounds
\* Capacity of the trie buffer in cells: a write at the tail fails beyond it.
MaxBufferSize == 50
\* Fuel of the reader's loops (the readers' guards against broken dictionaries).
MaxWalk == 40
\* The number of mutation calls in one run.
MaxOps == 3
\* The number of output slots of a prediction (MAX_RESULTS), scaled down.
MAX_RESULTS == 2
\* The number of previous words a MultiBigramMap caches
\* (MAX_CACHED_PREV_WORDS_IN_BIGRAM_MAP), scaled down.
MAX_CACHED_PREV_WORDS_IN_BIGRAM_MAP == 2

\* ------------------------------------------------------- program constants
NOT_A_DICT_POS == 0
NOT_A_VALID_WORD_POS == -99
NOT_A_PROBABILITY == -1
NOT_A_CODE_POINT == -1
MAX_WORD_LENGTH == 48
MAX_PROBABILITY == 255
MAX_ALTERNATIVES == 1
BIGRAM_FILTER_MODULO == 256

\* PtNode flag bits (one flags cell per PtNode).
FLAG_IS_BLACKLISTED == 1
FLAG_IS_NOT_A_WORD == 2
FLAG_HAS_BIGRAMS == 4
FLAG_HAS_SHORTCUT_TARGETS == 8
FLAG_IS_TERMINAL == 16
FLAG_HAS_MULTIPLE_CHARS == 32
\* The two top bits: 3 = not moved (and 3-byte children position), 1 = moved,
\* 2 = deleted, 0 = the dummy flags of a PtNode that is being written.
FLAG_IS_MOVED == 64
FLAG_IS_DELETED == 128
FLAG_IS_NOT_MOVED == 192
\* Bigram entry flag bits.
FLAG_BIGRAM_HAS_NEXT == 128
MASK_BIGRAM_PROBABILITY == 15

\* ------------------------------------------------------------ inputs
\* Code points 1, 2, 3 stand for 'a', 'b', 'c'.
Words == { <<1>>, <<1, 2>>, <<1, 3>>, <<1, 2, 3>> }
Probabilities == { 10, 20 }
BigramProbabilities == { 1, 2 }
\* The (previous word, next word) pairs of the bigram calls.
BigramPairs == { <<<<1, 2>>, <<1, 2>>>>, <<<<1, 2>>, <<1, 2, 3>>>>, <<<<1, 2, 3>>, <<1, 2>>>> }
\* The words, in the order they were added, of the dictionaries a run may
\* open: an empty one, and one where "ab" has the child "c".
InitialWordLists == { <<>>, << <<1, 2>>, <<1, 2, 3>> >> }
InitialProbability == 10

\* ------------------------------------------------------------ helpers
HasBit(flags, bit) == (flags \div bit) % 2 = 1

Max(a, b) == IF a > b THEN a ELSE b

Min(a, b) == IF a < b THEN a ELSE b

Reverse(s) == [i \in 1..Len(s) |-> s[Len(s) + 1 - i]]

\* F applied to the value of e: a local variable of the code that is
\* assigned once and read several times.
Let(e, F(_)) == F(e)

\* --------------------------------------------------- the buffer, reading
\* BufferWithExtendableBuffer::getTailPosition
TailPosition(b) == Len(b) + 1

\* A read of one field.  The extendable region is zero-filled when it is
\* allocated, so a position past the tail reads 0.
Cell(b, p) == IF p >= 1 /\ p <= Len(b) THEN b[p] ELSE 0

\* Offsets are stored relative to the field that holds them; 0 is "none".
ReadOffsetField(b, fieldPos) == IF Cell(b, fieldPos) = 0 THEN NOT_A_DICT_POS ELSE fieldPos + Cell(b, fieldPos)

OffsetFieldValue(fieldPos, targetPos) == IF targetPos = NOT_A_DICT_POS THEN 0 ELSE targetPos - fieldPos

\* The parent offset is relative to the head of the PtNode.
ParentPosOf(headPos, parentOffset) == IF parentOffset = 0 THEN NOT_A_DICT_POS ELSE headPos + parentOffset

isMoved(flags) == (flags \div FLAG_IS_MOVED) % 4 = 1

isDeleted(flags) == (flags \div FLAG_IS_MOVED) % 4 = 2

isTerminalFlags(flags) == HasBit(flags, FLAG_IS_TERMINAL)

hasBigrams(flags) == HasBit(flags, FLAG_HAS_BIGRAMS)

hasMultipleChars(flags) == HasBit(flags, FLAG_HAS_MULTIPLE_CHARS)

hasShortcutTargets(flags) == HasBit(flags, FLAG_HAS_SHORTCUT_TARGETS)

\* PatriciaTrieReadingUtils::getCharsAndAdvancePosition: one code point, or
\* the code points up to the terminator when the PtNode has multiple chars.
RECURSIVE ReadChars(_, _, _)
ReadChars(b, pos, n) == IF n >= MAX_WORD_LENGTH \/ Cell(b, pos) = NOT_A_CODE_POINT \/ pos > Len(b) THEN <<>> ELSE <<Cell(b, pos)>> \o ReadChars(b, pos + 1, n + 1)

getCodePoints(b, flags, pos) == IF hasMultipleChars(flags) THEN ReadChars(b, pos, 0) ELSE <<Cell(b, pos)>>

\* Position after the code points (the terminator of a multi-char label included).
PosAfterCodePoints(b, flags, pos) == IF hasMultipleChars(flags) THEN pos + Len(ReadChars(b, pos, 0)) + 1 ELSE pos + 1

\* Bigram entry: a flags cell (probability, has-next) and a target cell.
BigramHasNext(flags) == HasBit(flags, FLAG_BIGRAM_HAS_NEXT)

BigramProbabilityFromFlags(flags) == flags % (MASK_BIGRAM_PROBABILITY + 1)

BigramEntryFlags(probability, hasNext) == (probability % (MASK_BIGRAM_PROBABILITY + 1)) + (IF hasNext THEN FLAG_BIGRAM_HAS_NEXT ELSE 0)

\* The target is stored as an offset from its own field; 0 marks an entry
\* whose target is not a valid word position (a removed entry).
BigramTargetOf(b, targetFieldPos) == IF Cell(b, targetFieldPos) = 0 THEN NOT_A_VALID_WORD_POS ELSE targetFieldPos + Cell(b, targetFieldPos)

BigramTargetFieldValue(targetFieldPos, targetPos) == IF targetPos = NOT_A_VALID_WORD_POS THEN 0 ELSE targetPos - targetFieldPos

\* DynamicBigramListPolicy::skipAllBigrams: the position after the list.
RECURSIVE SkipAllBigrams(_, _, _)
SkipAllBigrams(b, pos, fuel) == IF fuel = 0 \/ pos > Len(b) \/ ~BigramHasNext(Cell(b, pos)) THEN pos + 2 ELSE SkipAllBigrams(b, pos + 2, fuel - 1)

\* The positions of the entries of the bigram list at pos, in list order.
RECURSIVE BigramEntryPositions(_, _, _)
BigramEntryPositions(b, pos, fuel) == IF pos = NOT_A_DICT_POS \/ fuel = 0 \/ pos > Len(b) THEN <<>> ELSE IF BigramHasNext(Cell(b, pos)) THEN <<pos>> \o BigramEntryPositions(b, pos + 2, fuel - 1) ELSE <<pos>>

\* A shortcut list: a size cell, which counts itself, and the cells of the
\* shortcut targets.  DynamicShortcutListPolicy::skipAllShortcuts: the
\* position after the list.
skipAllShortcuts(b, pos) == pos + Cell(b, pos)

\* The cells of the shortcut list at pos, the size cell first (none when the
\* position is NOT_A_DICT_POS).
ShortcutListAt(b, pos) == IF pos = NOT_A_DICT_POS THEN <<>> ELSE [k \in 1..Max(Cell(b, pos), 0) |-> Cell(b, pos + k - 1)]

\* DynamicPatriciaTrieNodeReader::invalidatePtNodeInfo
InvalidPtNode == [headPos |-> NOT_A_DICT_POS, flags |-> 0, parentPos |-> NOT_A_DICT_POS, codePoints |-> <<>>, probability |-> NOT_A_PROBABILITY, probabilityFieldPos |-> NOT_A_DICT_POS, childrenPos |-> NOT_A_DICT_POS, childrenPosFieldPos |-> NOT_A_DICT_POS, shortcutPos |-> NOT_A_DICT_POS, bigramsPos |-> NOT_A_DICT_POS, siblingPos |-> NOT_A_DICT_POS, bigramLinkedNodePos |-> NOT_A_DICT_POS]

\* The fields of the PtNode stored at nodePos, without following a move.
RawPtNode(b, nodePos) ==
    Let(Cell(b, nodePos), LAMBDA flags :
    Let(PosAfterCodePoints(b, flags, nodePos + 2), LAMBDA after :
    Let(IF isTerminalFlags(flags) THEN after + 1 ELSE after, LAMBDA chPos :
    Let(IF hasShortcutTargets(flags) THEN skipAllShortcuts(b, chPos + 1) ELSE chPos + 1, LAMBDA afterShortcuts :
        [headPos |-> nodePos,
         flags |-> flags,
         parentPos |-> ParentPosOf(nodePos, Cell(b, nodePos + 1)),
         codePoints |-> getCodePoints(b, flags, nodePos + 2),
         probability |-> IF isTerminalFlags(flags) THEN Cell(b, after) ELSE NOT_A_PROBABILITY,
         probabilityFieldPos |-> IF isTerminalFlags(flags) THEN after ELSE NOT_A_DICT_POS,
         childrenPos |-> ReadOffsetField(b, chPos),
         childrenPosFieldPos |-> chPos,
         shortcutPos |-> IF hasShortcutTargets(flags) THEN chPos + 1 ELSE NOT_A_DICT_POS,
         bigramsPos |-> IF hasBigrams(flags) THEN afterShortcuts ELSE NOT_A_DICT_POS,
         siblingPos |-> IF hasBigrams(flags) THEN SkipAllBigrams(b, afterShortcuts, MaxWalk) ELSE afterShortcuts,
         bigramLinkedNodePos |-> IF isMoved(flags) THEN ReadOffsetField(b, chPos) ELSE NOT_A_DICT_POS]))))

\* DynamicPatriciaTrieNodeReader::fetchNodeInfoFromBufferAndProcessMovedNode:
\* the PtNode at nodePos; when it is marked moved, the PtNode it was moved to
\* (the destination is stored in the parent offset field), keeping the sibling
\* position and the bigram link of the PtNode first read.
RECURSIVE FetchMoved(_, _, _, _, _)
FetchMoved(b, nodePos, siblingPos, linkPos, fuel) ==
    IF nodePos < 1 \/ nodePos >= TailPosition(b) \/ fuel = 0
    THEN InvalidPtNode
    ELSE Let(RawPtNode(b, nodePos), LAMBDA n :
         Let(IF siblingPos = NOT_A_DICT_POS THEN n.siblingPos ELSE siblingPos, LAMBDA sib :
         Let(IF siblingPos = NOT_A_DICT_POS THEN n.bigramLinkedNodePos ELSE linkPos, LAMBDA link :
             IF isMoved(n.flags)
             THEN FetchMoved(b, n.parentPos, sib, link, fuel - 1)
             ELSE [n EXCEPT !.siblingPos = sib, !.bigramLinkedNodePos = link])))

\* DynamicPatriciaTrieNodeReader::fetchNodeInfoFromBuffer
fetchNodeInfoFromBuffer(b, nodePos) == FetchMoved(b, nodePos, NOT_A_DICT_POS, NOT_A_DICT_POS, MaxWalk)

hasChildren(n) == n.childrenPos # NOT_A_DICT_POS

isTerminal(n) == isTerminalFlags(n.flags)

\* ------------------------------------------------- the reading helper
\* The state of a DynamicPatriciaTrieReadingHelper: the position being read
\* (NOT_A_DICT_POS at the end), the PtNodes left in the current array, the
\* code points of the PtNodes passed so far, the last forward link field
\* read, the error flag and the PtNode held by its node reader.
EndOfReading(isError, lastFwd) == [pos |-> NOT_A_DICT_POS, nodeCount |-> 0, prevTotal |-> 0, lastFwd |-> lastFwd, isError |-> isError, node |-> InvalidPtNode]

isEnd(rs) == rs.pos = NOT_A_DICT_POS

\* DynamicPatriciaTrieReadingHelper::nextNodeArray and followForwardLink:
\* from the head of a PtNodeArray to its first PtNode, through the forward
\* links of empty arrays.
RECURSIVE NextNodeArray(_, _, _, _)
NextNodeArray(b, pos, prevTotal, fuel) ==
    IF pos < 1 \/ pos >= TailPosition(b) \/ fuel = 0
    THEN [EndOfReading(TRUE, NOT_A_DICT_POS) EXCEPT !.prevTotal = prevTotal]
    ELSE IF Cell(b, pos) > 0
         THEN [pos |-> pos + 1, nodeCount |-> Cell(b, pos), prevTotal |-> prevTotal, lastFwd |-> NOT_A_DICT_POS, isError |-> FALSE, node |-> InvalidPtNode]
         ELSE IF pos + 1 >= TailPosition(b)
              THEN [EndOfReading(TRUE, NOT_A_DICT_POS) EXCEPT !.prevTotal = prevTotal]
              ELSE IF Cell(b, pos + 1) # 0
                   THEN NextNodeArray(b, pos + 1 + Cell(b, pos + 1), prevTotal, fuel - 1)
                   ELSE [EndOfReading(FALSE, pos + 1) EXCEPT !.prevTotal = prevTotal]

\* DynamicPatriciaTrieReadingHelper::fetchNodeInfo: an empty PtNode is an error.
fetchNodeInfo(b, rs) ==
    IF isEnd(rs) THEN rs
    ELSE Let(fetchNodeInfoFromBuffer(b, rs.pos), LAMBDA n :
             IF Len(n.codePoints) <= 0
             THEN [rs EXCEPT !.pos = NOT_A_DICT_POS, !.isError = TRUE, !.node = InvalidPtNode]
             ELSE [rs EXCEPT !.node = n])

\* DynamicPatriciaTrieReadingHelper::initWithNodeArrayPos
initWithNodeArrayPos(b, nodeArrayPos) == IF nodeArrayPos = NOT_A_DICT_POS THEN EndOfReading(FALSE, NOT_A_DICT_POS) ELSE fetchNodeInfo(b, NextNodeArray(b, nodeArrayPos, 0, MaxWalk))

\* DynamicPatriciaTrieReadingHelper::initWithNodePos
initWithNodePos(b, nodePos) == IF nodePos = NOT_A_VALID_WORD_POS \/ nodePos = NOT_A_DICT_POS THEN EndOfReading(FALSE, NOT_A_DICT_POS) ELSE fetchNodeInfo(b, [pos |-> nodePos, nodeCount |-> 1, prevTotal |-> 0, lastFwd |-> NOT_A_DICT_POS, isError |-> FALSE, node |-> InvalidPtNode])

\* DynamicPatriciaTrieReadingHelper::readNextSiblingNode
readNextSiblingNode(b, rs) ==
    IF rs.nodeCount - 1 > 0
    THEN fetchNodeInfo(b, [rs EXCEPT !.pos = rs.node.siblingPos, !.nodeCount = rs.nodeCount - 1])
    ELSE Let(rs.node.siblingPos, LAMBDA fl :
             IF fl < 1 \/ fl >= TailPosition(b)
             THEN [EndOfReading(TRUE, rs.lastFwd) EXCEPT !.prevTotal = rs.prevTotal]
             ELSE IF Cell(b, fl) # 0
                  THEN Let(NextNodeArray(b, fl + Cell(b, fl), rs.prevTotal, MaxWalk), LAMBDA nx :
                           fetchNodeInfo(b, IF isEnd(nx) /\ ~nx.isError /\ nx.lastFwd = NOT_A_DICT_POS THEN [nx EXCEPT !.lastFwd = fl] ELSE nx))
                  ELSE [EndOfReading(FALSE, fl) EXCEPT !.prevTotal = rs.prevTotal])

\* DynamicPatriciaTrieReadingHelper::readChildNode
readChildNode(b, rs) == IF hasChildren(rs.node) THEN fetchNodeInfo(b, NextNodeArray(b, rs.node.childrenPos, rs.prevTotal + Len(rs.node.codePoints), MaxWalk)) ELSE [EndOfReading(FALSE, NOT_A_DICT_POS) EXCEPT !.prevTotal = rs.prevTotal]

\* DynamicPatriciaTrieReadingHelper::readParentNode
readParentNode(b, rs) == IF rs.node.parentPos # NOT_A_DICT_POS THEN fetchNodeInfo(b, [rs EXCEPT !.pos = rs.node.parentPos, !.nodeCount = 1, !.prevTotal = rs.prevTotal + Len(rs.node.codePoints)]) ELSE [rs EXCEPT !.pos = NOT_A_DICT_POS, !.prevTotal = rs.prevTotal + Len(rs.node.codePoints), !.node = InvalidPtNode]

getTotalCodePointCount(rs) == rs.prevTotal + Len(rs.node.codePoints)

isValidTerminalNode(rs) == ~isEnd(rs) /\ ~isDeleted(rs.node.flags) /\ isTerminal(rs.node)

\* DicNodeUtils / policy getRootPosition: the root PtNodeArray follows the header.
getRootPosition == 1

\* ------------------------------------------------------- the read path
\* The mismatch test of the merged code points j = 1 .. count - 1 (0-based).
MergedCodePointsMismatch(node, word, matched) == \E j \in 2..Len(node.codePoints) : node.codePoints[j] # word[matched + j]

\* DynamicPatriciaTriePolicy::getTerminalNodePositionOfWord, the loop.
RECURSIVE TerminalPositionLoop(_, _, _, _)
TerminalPositionLoop(b, rs, word, fuel) ==
    IF isEnd(rs) \/ fuel = 0 THEN NOT_A_VALID_WORD_POS
    ELSE IF getTotalCodePointCount(rs) > Len(word) \/ rs.node.codePoints[1] # word[rs.prevTotal + 1]
         THEN TerminalPositionLoop(b, readNextSiblingNode(b, rs), word, fuel - 1)
         ELSE IF MergedCodePointsMismatch(rs.node, word, rs.prevTotal) THEN NOT_A_VALID_WORD_POS
         ELSE IF Len(word) = getTotalCodePointCount(rs) THEN rs.node.headPos
         ELSE IF ~hasChildren(rs.node) THEN NOT_A_VALID_WORD_POS
         ELSE TerminalPositionLoop(b, readChildNode(b, rs), word, fuel - 1)

getTerminalNodePositionOfWord(b, word) == TerminalPositionLoop(b, initWithNodeArrayPos(b, getRootPosition), word, MaxWalk)

\* A walk toward the root that stores code points whatever their number.
RECURSIVE ParentWalkWithoutLimit(_, _, _, _, _)
ParentWalkWithoutLimit(b, rs, maxCodePointCount, reverseCodePoints, fuel) ==
    IF fuel = 0 THEN [ok |-> FALSE, reverseCodePoints |-> reverseCodePoints]
    ELSE IF isEnd(rs) THEN [ok |-> ~rs.isError, reverseCodePoints |-> reverseCodePoints]
    ELSE ParentWalkWithoutLimit(b, readParentNode(b, rs), maxCodePointCount, reverseCodePoints \o Reverse(rs.node.codePoints), fuel - 1)

\* DynamicPatriciaTriePolicy::getCodePointsAndProbabilityAndReturnCodePointCount,
\* the walk toward the root: the code points gathered in reverse order.
RECURSIVE ParentWalk(_, _, _, _, _)
ParentWalk(b, rs, maxCodePointCount, reverseCodePoints, fuel) ==
    IF fuel = 0 THEN [ok |-> FALSE, reverseCodePoints |-> reverseCodePoints]
    ELSE IF isEnd(rs) THEN [ok |-> ~rs.isError, reverseCodePoints |-> reverseCodePoints]
    ELSE IF getTotalCodePointCount(rs) > maxCodePointCount THEN [ok |-> FALSE, reverseCodePoints |-> reverseCodePoints]
    ELSE ParentWalk(b, readParentNode(b, rs), maxCodePointCount, reverseCodePoints \o Reverse(rs.node.codePoints), fuel - 1)

\* DynamicPatriciaTriePolicy::getCodePointsAndProbabilityAndReturnCodePointCount,
\* what the call has stored in reverseCodePoints when it returns and whether
\* it has reached the root without an error.  The method returns before the
\* walk, with nothing stored, when the PtNode at nodePos is not a valid
\* terminal.
reverseCodePointsOf(b, nodePos, maxCodePointCount) ==
    Let(initWithNodePos(b, nodePos), LAMBDA rs :
        IF ~isValidTerminalNode(rs)
        THEN [ok |-> FALSE, reverseCodePoints |-> <<>>]
        ELSE ParentWalk(b, rs, maxCodePointCount, <<>>, MaxWalk))

\* The result: the word and its unigram probability, or no code point and
\* NOT_A_PROBABILITY.
getCodePointsAndProbability(b, nodePos, maxCodePointCount) ==
    Let(initWithNodePos(b, nodePos), LAMBDA rs :
        IF ~isValidTerminalNode(rs)
        THEN [codePoints |-> <<>>, probability |-> NOT_A_PROBABILITY]
        ELSE Let(ParentWalk(b, rs, maxCodePointCount, <<>>, MaxWalk), LAMBDA w :
                 IF w.ok THEN [codePoints |-> Reverse(w.reverseCodePoints), probability |-> rs.node.probability]
                 ELSE [codePoints |-> <<>>, probability |-> NOT_A_PROBABILITY]))

\* --------------------------------------------------- the buffer, writing
\* The state of one mutation while it runs: the buffer, whether every write
\* so far succeeded (the helpers return false at the first failed write and
\* write nothing more), the writes made in order, and the writing position
\* left by the last helper (its int *writingPos).
StartWriting(b) == [buf |-> b, ok |-> TRUE, log |-> <<>>, pos |-> NOT_A_DICT_POS]

\* BufferWithExtendableBuffer::writeUintAndAdvancePosition with
\* checkAndPrepareWriting: a write below the tail patches in place, a write
\* at the tail appends while the buffer can be extended, any other fails.
WriteCell(ws, pos, val, kind) ==
    IF ~ws.ok THEN ws
    ELSE IF pos >= 1 /\ pos <= Len(ws.buf)
         THEN [ws EXCEPT !.buf[pos] = val, !.log = Append(@, [pos |-> pos, val |-> val, kind |-> kind]), !.pos = pos + 1]
         ELSE IF pos = Len(ws.buf) + 1 /\ Len(ws.buf) < MaxBufferSize
              THEN [ws EXCEPT !.buf = Append(@, val), !.log = Append(@, [pos |-> pos, val |-> val, kind |-> kind]), !.pos = pos + 1]
              ELSE [ws EXCEPT !.ok = FALSE]

\* A helper that returns false without writing.
Fail(ws) == [ws EXCEPT !.ok = FALSE]

\* DynamicPatriciaTrieWritingUtils::writeFlagsAndAdvancePosition
writeFlags(ws, pos, flags) == WriteCell(ws, pos, flags, "flags")

\* DynamicPatriciaTrieWritingUtils::writeParentOffsetAndAdvancePosition
writeParentOffset(ws, pos, parentOffset) == WriteCell(ws, pos, parentOffset, "parentOffset")

\* DynamicPatriciaTrieWritingUtils::writeProbabilityAndAdvancePosition
writeProbability(ws, pos, probability) == WriteCell(ws, pos, probability, "probability")

\* DynamicPatriciaTrieWritingUtils::writeChildrenPositionAndAdvancePosition
writeChildrenPosition(ws, pos, childrenPos) == WriteCell(ws, pos, OffsetFieldValue(pos, childrenPos), "childrenPos")

\* DynamicPatriciaTrieWritingUtils::writeForwardLinkPositionAndAdvancePosition
writeForwardLinkPosition(ws, pos, forwardLinkPos) == WriteCell(ws, pos, OffsetFieldValue(pos, forwardLinkPos), "forwardLink")

\* DynamicPatriciaTrieWritingUtils::writePtNodeArraySizeAndAdvancePosition
writePtNodeArraySize(ws, pos, arraySize) == WriteCell(ws, pos, arraySize, "arraySize")

\* DynamicPatriciaTrieWritingUtils::writeCodePointsAndAdvancePosition: the
\* code points, then the terminator when there is more than one.
RECURSIVE WriteCodePointCells(_, _, _, _)
WriteCodePointCells(ws, pos, codePoints, i) == IF i > Len(codePoints) THEN [ws EXCEPT !.pos = pos] ELSE WriteCodePointCells(WriteCell(ws, pos, codePoints[i], "codePoint"), pos + 1, codePoints, i + 1)

writeCodePoints(ws, pos, codePoints) ==
    Let(WriteCodePointCells(ws, pos, codePoints, 1), LAMBDA w :
        IF Len(codePoints) > 1 THEN WriteCell(w, w.pos, NOT_A_CODE_POINT, "codePoint") ELSE w)

\* PatriciaTrieReadingUtils::createAndGetFlags, 3-byte children position.
createAndGetFlags(isBlacklisted, isNotAWord, terminal, withShortcutTargets, withBigrams, multipleChars) ==
    (IF isBlacklisted THEN FLAG_IS_BLACKLISTED ELSE 0) + (IF isNotAWord THEN FLAG_IS_NOT_A_WORD ELSE 0)
    + (IF terminal THEN FLAG_IS_TERMINAL ELSE 0) + (IF withShortcutTargets THEN FLAG_HAS_SHORTCUT_TARGETS ELSE 0)
    + (IF withBigrams THEN FLAG_HAS_BIGRAMS ELSE 0) + (IF multipleChars THEN FLAG_HAS_MULTIPLE_CHARS ELSE 0)
    + FLAG_IS_NOT_MOVED

\* DynamicPatriciaTrieReadingUtils::updateAndGetFlags
updateAndGetFlags(originalFlags, moved, deleted) == (originalFlags % FLAG_IS_MOVED) + (IF moved THEN FLAG_IS_MOVED ELSE IF deleted THEN FLAG_IS_DELETED ELSE FLAG_IS_NOT_MOVED)

\* ------------------------------------------------------ the bigram lists
\* DynamicBigramListPolicy::followBigramLinkAndGetCurrentBigramPtNodePos:
\* the current position of a bigram target, through the bigram links left in
\* the children position field of moved PtNodes.
RECURSIVE FollowBigramLink(_, _, _)
FollowBigramLink(b, currentPos, fuel) ==
    Let(fetchNodeInfoFromBuffer(b, currentPos).bigramLinkedNodePos, LAMBDA linked :
        IF linked = NOT_A_DICT_POS \/ fuel = 0 THEN currentPos ELSE FollowBigramLink(b, linked, fuel - 1))

followBigramLinkAndGetCurrentBigramPtNodePos(b, originalBigramPos) == IF originalBigramPos = NOT_A_VALID_WORD_POS THEN NOT_A_VALID_WORD_POS ELSE FollowBigramLink(b, originalBigramPos, MaxWalk)

\* DynamicBigramListPolicy::getNextBigram for the entry at entryPos.
getNextBigram(b, entryPos) == [bigramPos |-> followBigramLinkAndGetCurrentBigramPtNodePos(b, BigramTargetOf(b, entryPos + 1)), probability |-> BigramProbabilityFromFlags(Cell(b, entryPos)), hasNext |-> BigramHasNext(Cell(b, entryPos))]

\* BinaryDictionaryBigramsIterator over the list at bigramsListPos: the
\* entries in list order (no entry when the position is NOT_A_DICT_POS).
BigramsOf(b, bigramsListPos) == Let(BigramEntryPositions(b, bigramsListPos, MaxWalk), LAMBDA ps : [i \in 1..Len(ps) |-> getNextBigram(b, ps[i])])

\* DynamicBigramListPolicy::writeNewBigramEntry
writeNewBigramEntry(ws, bigramPos, probability, hasNext, writingPos) ==
    LET w == WriteCell(ws, writingPos, BigramEntryFlags(probability, hasNext), "bigramFlags")
    IN WriteCell(w, writingPos + 1, BigramTargetFieldValue(writingPos + 1, bigramPos), "bigramTarget")

\* DynamicBigramListPolicy::copyAllBigrams: the entries with a valid target
\* are written at toPos with their targets resolved; the last one written
\* then ends the list.  ws.pos is left after the copy.
RECURSIVE CopyBigramEntries(_, _, _, _, _)
CopyBigramEntries(ws, entries, i, toPos, lastWrittenEntryPos) ==
    IF i > Len(entries)
    THEN LET done == IF lastWrittenEntryPos # NOT_A_DICT_POS THEN WriteCell(ws, lastWrittenEntryPos, BigramEntryFlags(BigramProbabilityFromFlags(Cell(ws.buf, lastWrittenEntryPos)), FALSE), "bigramFlags") ELSE ws
         IN [done EXCEPT !.pos = toPos]
    ELSE IF entries[i].bigramPos = NOT_A_VALID_WORD_POS
         THEN CopyBigramEntries(ws, entries, i + 1, toPos, lastWrittenEntryPos)
         ELSE CopyBigramEntries(writeNewBigramEntry(ws, entries[i].bigramPos, entries[i].probability, entries[i].hasNext, toPos), entries, i + 1, toPos + 2, toPos)

copyAllBigrams(ws, fromPos, toPos) == CopyBigramEntries(ws, BigramsOf(ws.buf, fromPos), 1, toPos, NOT_A_DICT_POS)

ValidBigramCount(entries) == Cardinality({i \in 1..Len(entries) : entries[i].bigramPos # NOT_A_VALID_WORD_POS})

\* The position of the first entry of the list at bigramListPos whose target
\* is now at bigramPos, or NOT_A_DICT_POS: the search loop of
\* addNewBigramEntryToBigramList and of removeBigram.
FirstBigramEntryFor(b, ps, bigramPos) ==
    Let({i \in 1..Len(ps) : getNextBigram(b, ps[i]).bigramPos = bigramPos}, LAMBDA hits :
        IF hits = {} THEN NOT_A_DICT_POS ELSE ps[CHOOSE i \in hits : \A j \in hits : i <= j])

\* DynamicBigramListPolicy::addNewBigramEntryToBigramList: the entry for the
\* target gets the new probability in place; when there is none, the last
\* entry is flagged has-next and a new entry is written after it.
addNewBigramEntryToBigramList(ws, bigramPos, probability, bigramListPos) ==
    Let(BigramEntryPositions(ws.buf, bigramListPos, MaxWalk), LAMBDA ps :
    Let(FirstBigramEntryFor(ws.buf, ps, bigramPos), LAMBDA e :
        IF e # NOT_A_DICT_POS
        THEN WriteCell(ws, e, BigramEntryFlags(probability, BigramHasNext(Cell(ws.buf, e))), "bigramFlags")
        ELSE IF ps = <<>> THEN Fail(ws)
        ELSE writeNewBigramEntry(WriteCell(ws, ps[Len(ps)], BigramEntryFlags(BigramProbabilityFromFlags(Cell(ws.buf, ps[Len(ps)])), TRUE), "bigramFlags"), bigramPos, probability, FALSE, ps[Len(ps)] + 2)))

\* DynamicBigramListPolicy::removeBigram: the first entry for the target gets
\* an invalid target position; false when there is none.
removeBigram(ws, bigramListPos, bigramPos) ==
    Let(FirstBigramEntryFor(ws.buf, BigramEntryPositions(ws.buf, bigramListPos, MaxWalk), bigramPos), LAMBDA e :
        IF e = NOT_A_DICT_POS THEN Fail(ws)
        ELSE WriteCell(ws, e + 1, BigramTargetFieldValue(e + 1, NOT_A_VALID_WORD_POS), "bigramTarget"))

\* --------------------------------------------------- the writing helper
\* DynamicPatriciaTrieWritingHelper::markNodeAsMovedAndSetPosition, the loop
\* over the children of the moved PtNode: each child's parent offset is
\* rewritten to refer to movedPos.
RECURSIVE UpdateChildrenParent(_, _, _, _)
UpdateChildrenParent(ws, rs, movedPos, fuel) ==
    IF ~ws.ok \/ isEnd(rs) \/ fuel = 0 THEN ws
    ELSE Let(writeParentOffset(ws, rs.node.headPos + 1, movedPos - rs.node.headPos), LAMBDA w :
             UpdateChildrenParent(w, readNextSiblingNode(w.buf, rs), movedPos, fuel - 1))

\* DynamicPatriciaTrieWritingHelper::markNodeAsMovedAndSetPosition
markNodeAsMovedAndSetPosition(ws, originalNode, movedPos, bigramLinkedNodePos) ==
    LET originalFlags == Cell(ws.buf, originalNode.headPos)
        updatedFlags == updateAndGetFlags(originalFlags, TRUE, FALSE)
        w1 == writeFlags(ws, originalNode.headPos, updatedFlags)
        w2 == writeParentOffset(w1, originalNode.headPos + 1, movedPos - originalNode.headPos)
    IN Let(writeChildrenPosition(w2, originalNode.childrenPosFieldPos, bigramLinkedNodePos), LAMBDA w3 :
           IF hasChildren(originalNode) /\ w3.ok
           THEN UpdateChildrenParent(w3, initWithNodeArrayPos(w3.buf, originalNode.childrenPos), movedPos, MaxWalk)
           ELSE w3)

\* The cells of a shortcut list written from toPos on, one write each.
RECURSIVE WriteShortcutCells(_, _, _, _)
WriteShortcutCells(ws, cells, i, toPos) == IF i > Len(cells) THEN [ws EXCEPT !.pos = toPos] ELSE WriteShortcutCells(WriteCell(ws, toPos, cells[i], "shortcut"), cells, i + 1, toPos + 1)

\* DynamicShortcutListPolicy::copyAllShortcutsAndReturnIfSucceededOrNot: the
\* size of the list at fromPos, then its targets, written from toPos on.
copyAllShortcutsAndReturnIfSucceededOrNot(ws, fromPos, toPos) == WriteShortcutCells(ws, ShortcutListAt(ws.buf, fromPos), 1, toPos)

\* DynamicPatriciaTrieWritingHelper::writePtNodeWithFullInfoToBuffer: dummy
\* flags, parent offset, code points, probability (terminal only), children
\* position, the copied shortcut list, the copied bigram list, and last the
\* actual flags.
writePtNodeWithFullInfoToBuffer(ws, isBlacklisted, isNotAWord, parentPos, codePoints, probability, childrenPos, originalBigramListPos, originalShortcutListPos, nodePos) ==
    LET w1 == writeFlags(ws, nodePos, 0)
        parentOffset == IF parentPos # NOT_A_DICT_POS THEN parentPos - nodePos ELSE NOT_A_DICT_POS
        w2 == writeParentOffset(w1, nodePos + 1, parentOffset)
    IN Let(writeCodePoints(w2, nodePos + 2, codePoints), LAMBDA w3 :
       Let(IF probability # NOT_A_PROBABILITY THEN writeProbability(w3, w3.pos, probability) ELSE w3, LAMBDA w4 :
       Let(writeChildrenPosition(w4, w4.pos, childrenPos), LAMBDA w4c :
       Let(IF originalShortcutListPos # NOT_A_DICT_POS /\ w4c.ok THEN copyAllShortcutsAndReturnIfSucceededOrNot(w4c, originalShortcutListPos, w4c.pos) ELSE w4c, LAMBDA w5 :
       Let(IF originalBigramListPos # NOT_A_DICT_POS /\ w5.ok THEN ValidBigramCount(BigramsOf(w5.buf, originalBigramListPos)) ELSE 0, LAMBDA bigramCount :
       Let(IF originalBigramListPos # NOT_A_DICT_POS /\ w5.ok THEN copyAllBigrams(w5, originalBigramListPos, w5.pos) ELSE w5, LAMBDA w6 :
       Let(writeFlags(w6, nodePos, createAndGetFlags(isBlacklisted, isNotAWord, probability # NOT_A_PROBABILITY, originalShortcutListPos # NOT_A_DICT_POS, bigramCount > 0, Len(codePoints) > 1)), LAMBDA w7 :
           IF w7.ok THEN [w7 EXCEPT !.pos = w6.pos] ELSE w7)))))))

\* DynamicPatriciaTrieWritingHelper::writePtNodeToBuffer
writePtNodeToBuffer(ws, parentPos, codePoints, probability, nodePos) == writePtNodeWithFullInfoToBuffer(ws, FALSE, FALSE, parentPos, codePoints, probability, NOT_A_DICT_POS, NOT_A_DICT_POS, NOT_A_DICT_POS, nodePos)

\* A faulty writePtNodeToBufferByCopyingPtNodeInfo, which writes the copy over
\* the PtNode it copies instead of at the position it is given.
writePtNodeOverTheOriginalPtNode(ws, originalNode, parentPos, codePoints, probability, nodePos) == writePtNodeWithFullInfoToBuffer(ws, HasBit(originalNode.flags, FLAG_IS_BLACKLISTED), HasBit(originalNode.flags, FLAG_IS_NOT_A_WORD), parentPos, codePoints, probability, originalNode.childrenPos, originalNode.bigramsPos, originalNode.shortcutPos, originalNode.headPos)

\* DynamicPatriciaTrieWritingHelper::writePtNodeToBufferByCopyingPtNodeInfo
writePtNodeToBufferByCopyingPtNodeInfo(ws, originalNode, parentPos, codePoints, probability, nodePos) == writePtNodeWithFullInfoToBuffer(ws, HasBit(originalNode.flags, FLAG_IS_BLACKLISTED), HasBit(originalNode.flags, FLAG_IS_NOT_A_WORD), parentPos, codePoints, probability, originalNode.childrenPos, originalNode.bigramsPos, originalNode.shortcutPos, nodePos)

\* DynamicPatriciaTrieWritingHelper::createNewPtNodeArrayWithAChildPtNode
createNewPtNodeArrayWithAChildPtNode(ws, parentPtNodePos, nodeCodePoints, probability) ==
    LET writingPos == TailPosition(ws.buf)
        w1 == writePtNodeArraySize(ws, writingPos, 1)
    IN Let(writePtNodeToBuffer(w1, parentPtNodePos, nodeCodePoints, probability, writingPos + 1), LAMBDA w2 :
           writeForwardLinkPosition(w2, w2.pos, NOT_A_DICT_POS))

\* DynamicPatriciaTrieWritingHelper::createAndInsertNodeIntoPtNodeArray
createAndInsertNodeIntoPtNodeArray(ws, parentPos, nodeCodePoints, probability, forwardLinkFieldPos) ==
    LET newPtNodeArrayPos == TailPosition(ws.buf)
    IN Let(writeForwardLinkPosition(ws, forwardLinkFieldPos, newPtNodeArrayPos), LAMBDA w1 :
           IF w1.ok THEN createNewPtNodeArrayWithAChildPtNode(w1, parentPos, nodeCodePoints, probability) ELSE w1)

\* DynamicPatriciaTrieWritingHelper::createChildrenPtNodeArrayAndAChildPtNode
createChildrenPtNodeArrayAndAChildPtNode(ws, parentNode, probability, codePoints) ==
    LET newPtNodeArrayPos == TailPosition(ws.buf)
    IN Let(writeChildrenPosition(ws, parentNode.childrenPosFieldPos, newPtNodeArrayPos), LAMBDA w1 :
           IF w1.ok THEN createNewPtNodeArrayWithAChildPtNode(w1, parentNode.headPos, codePoints, probability) ELSE w1)

\* A faulty setPtNodeProbability, which leaves the probability of a PtNode
\* that is already terminal as it is.
setPtNodeProbabilityOfNewTerminalOnly(ws, originalPtNode, probability, codePoints) ==
    IF isTerminal(originalPtNode)
    THEN ws
    ELSE Let(markNodeAsMovedAndSetPosition(ws, originalPtNode, TailPosition(ws.buf), TailPosition(ws.buf)), LAMBDA w1 :
             IF w1.ok THEN writePtNodeToBufferByCopyingPtNodeInfo(w1, originalPtNode, originalPtNode.parentPos, codePoints, probability, TailPosition(ws.buf)) ELSE w1)

\* A faulty setPtNodeProbability, which moves the PtNode whether it is
\* terminal or not.
setPtNodeProbabilityByMovingThePtNode(ws, originalPtNode, probability, codePoints) ==
    Let(markNodeAsMovedAndSetPosition(ws, originalPtNode, TailPosition(ws.buf), TailPosition(ws.buf)), LAMBDA w1 :
        IF w1.ok THEN writePtNodeToBufferByCopyingPtNodeInfo(w1, originalPtNode, originalPtNode.parentPos, codePoints, probability, TailPosition(ws.buf)) ELSE w1)

\* A faulty setPtNodeProbability, which after the move of a PtNode that is
\* not terminal writes the position of the copy into the children position
\* field of the parent PtNode.
setPtNodeProbabilityAndChildrenPositionOfParent(ws, originalPtNode, probability, codePoints) ==
    IF isTerminal(originalPtNode)
    THEN writeProbability(ws, originalPtNode.probabilityFieldPos, probability)
    ELSE Let(markNodeAsMovedAndSetPosition(ws, originalPtNode, TailPosition(ws.buf), TailPosition(ws.buf)), LAMBDA w1 :
         Let(IF w1.ok THEN writePtNodeToBufferByCopyingPtNodeInfo(w1, originalPtNode, originalPtNode.parentPos, codePoints, probability, TailPosition(ws.buf)) ELSE w1, LAMBDA w2 :
             IF w2.ok /\ originalPtNode.parentPos # NOT_A_DICT_POS
             THEN writeChildrenPosition(w2, fetchNodeInfoFromBuffer(w2.buf, originalPtNode.parentPos).childrenPosFieldPos, TailPosition(ws.buf))
             ELSE w2))

\* DynamicPatriciaTrieWritingHelper::setPtNodeProbability
setPtNodeProbability(ws, originalPtNode, probability, codePoints) ==
    IF isTerminal(originalPtNode)
    THEN writeProbability(ws, originalPtNode.probabilityFieldPos, probability)
    ELSE LET movedPos == TailPosition(ws.buf)
         IN Let(markNodeAsMovedAndSetPosition(ws, originalPtNode, movedPos, movedPos), LAMBDA w1 :
                IF w1.ok THEN writePtNodeToBufferByCopyingPtNodeInfo(w1, originalPtNode, originalPtNode.parentPos, codePoints, probability, movedPos) ELSE w1)

\* A faulty reallocatePtNodeAndAddNewPtNodes, whose first part is terminal
\* with the new probability also when the word goes on after it.
reallocatePtNodeWithATerminalFirstPart(ws, reallocatingPtNode, reallocatingPtNodeCodePoints, overlappingCodePointCount, probabilityOfNewPtNode, newNodeCodePoints) ==
    LET addsExtraChild == Len(newNodeCodePoints) > overlappingCodePointCount
        firstPartOfReallocatedPtNodePos == TailPosition(ws.buf)
        newProbability == probabilityOfNewPtNode
    IN Let(writePtNodeToBuffer(ws, reallocatingPtNode.parentPos, SubSeq(reallocatingPtNodeCodePoints, 1, overlappingCodePointCount), newProbability, firstPartOfReallocatedPtNodePos), LAMBDA w1 :
       Let(writePtNodeArraySize(w1, w1.pos, IF addsExtraChild THEN 2 ELSE 1), LAMBDA w2 :
       Let(IF w2.ok THEN writePtNodeToBufferByCopyingPtNodeInfo(w2, reallocatingPtNode, firstPartOfReallocatedPtNodePos, SubSeq(reallocatingPtNodeCodePoints, overlappingCodePointCount + 1, Len(reallocatingPtNodeCodePoints)), reallocatingPtNode.probability, w2.pos) ELSE w2, LAMBDA w3 :
       Let(IF addsExtraChild /\ w3.ok THEN writePtNodeToBuffer(w3, firstPartOfReallocatedPtNodePos, SubSeq(newNodeCodePoints, overlappingCodePointCount + 1, Len(newNodeCodePoints)), probabilityOfNewPtNode, w3.pos) ELSE w3, LAMBDA w4 :
       Let(writeForwardLinkPosition(w4, w4.pos, NOT_A_DICT_POS), LAMBDA w5 :
       Let(IF w5.ok THEN markNodeAsMovedAndSetPosition(w5, reallocatingPtNode, firstPartOfReallocatedPtNodePos, w2.pos) ELSE w5, LAMBDA w6 :
           IF w6.ok
           THEN writeChildrenPosition(w6, fetchNodeInfoFromBuffer(w6.buf, firstPartOfReallocatedPtNodePos).childrenPosFieldPos, w1.pos)
           ELSE w6))))))

\* DynamicPatriciaTrieWritingHelper::reallocatePtNodeAndAddNewPtNodes: the
\* split of a PtNode after overlappingCodePointCount code points.
reallocatePtNodeAndAddNewPtNodes(ws, reallocatingPtNode, reallocatingPtNodeCodePoints, overlappingCodePointCount, probabilityOfNewPtNode, newNodeCodePoints) ==
    LET addsExtraChild == Len(newNodeCodePoints) > overlappingCodePointCount
        firstPartOfReallocatedPtNodePos == TailPosition(ws.buf)
        newProbability == IF addsExtraChild THEN NOT_A_PROBABILITY ELSE probabilityOfNewPtNode
    IN Let(writePtNodeToBuffer(ws, reallocatingPtNode.parentPos, SubSeq(reallocatingPtNodeCodePoints, 1, overlappingCodePointCount), newProbability, firstPartOfReallocatedPtNodePos), LAMBDA w1 :
       Let(writePtNodeArraySize(w1, w1.pos, IF addsExtraChild THEN 2 ELSE 1), LAMBDA w2 :
       Let(IF w2.ok THEN writePtNodeToBufferByCopyingPtNodeInfo(w2, reallocatingPtNode, firstPartOfReallocatedPtNodePos, SubSeq(reallocatingPtNodeCodePoints, overlappingCodePointCount + 1, Len(reallocatingPtNodeCodePoints)), reallocatingPtNode.probability, w2.pos) ELSE w2, LAMBDA w3 :
       Let(IF addsExtraChild /\ w3.ok THEN writePtNodeToBuffer(w3, firstPartOfReallocatedPtNodePos, SubSeq(newNodeCodePoints, overlappingCodePointCount + 1, Len(newNodeCodePoints)), probabilityOfNewPtNode, w3.pos) ELSE w3, LAMBDA w4 :
       Let(writeForwardLinkPosition(w4, w4.pos, NOT_A_DICT_POS), LAMBDA w5 :
       Let(IF w5.ok THEN markNodeAsMovedAndSetPosition(w5, reallocatingPtNode, firstPartOfReallocatedPtNodePos, w2.pos) ELSE w5, LAMBDA w6 :
           IF w6.ok
           THEN writeChildrenPosition(w6, fetchNodeInfoFromBuffer(w6.buf, firstPartOfReallocatedPtNodePos).childrenPosFieldPos, w1.pos)
           ELSE w6))))))

\* DynamicPatriciaTrieWritingHelper::addUnigramWord, the loop over the
\* PtNodes read by the reading helper.
RECURSIVE AddUnigramLoop(_, _, _, _, _, _)
AddUnigramLoop(ws, rs, word, probability, parentPos, fuel) ==
    IF fuel = 0 THEN Fail(ws)
    ELSE IF isEnd(rs)
    THEN IF rs.isError THEN Fail(ws)
         ELSE createAndInsertNodeIntoPtNodeArray(ws, parentPos, SubSeq(word, rs.prevTotal + 1, Len(word)), probability, rs.lastFwd)
    ELSE LET matchedCodePointCount == rs.prevTotal
             cps == rs.node.codePoints
             mismatches == {j \in 1..(Len(cps) - 1) : matchedCodePointCount + j >= Len(word) \/ cps[j + 1] # word[matchedCodePointCount + j + 1]}
         IN IF cps[1] # word[matchedCodePointCount + 1]
            THEN AddUnigramLoop(ws, readNextSiblingNode(ws.buf, rs), word, probability, parentPos, fuel - 1)
            ELSE IF mismatches # {}
            THEN reallocatePtNodeAndAddNewPtNodes(ws, rs.node, cps, CHOOSE j \in mismatches : \A k \in mismatches : j <= k, probability, SubSeq(word, matchedCodePointCount + 1, Len(word)))
            ELSE IF Len(word) = getTotalCodePointCount(rs)
            THEN setPtNodeProbability(ws, rs.node, probability, cps)
            ELSE IF ~hasChildren(rs.node)
            THEN createChildrenPtNodeArrayAndAChildPtNode(ws, rs.node, probability, SubSeq(word, getTotalCodePointCount(rs) + 1, Len(word)))
            ELSE AddUnigramLoop(ws, readChildNode(ws.buf, rs), word, probability, rs.node.headPos, fuel - 1)

\* A faulty addUnigramWord, which compares no code point: the word is
\* inserted as a new PtNode after the last PtNode array of the root.
RECURSIVE AddUnigramLoopWithoutMatching(_, _, _, _, _)
AddUnigramLoopWithoutMatching(ws, rs, word, probability, fuel) ==
    IF fuel = 0 THEN Fail(ws)
    ELSE IF isEnd(rs)
    THEN IF rs.isError THEN Fail(ws)
         ELSE createAndInsertNodeIntoPtNodeArray(ws, NOT_A_DICT_POS, word, probability, rs.lastFwd)
    ELSE AddUnigramLoopWithoutMatching(ws, readNextSiblingNode(ws.buf, rs), word, probability, fuel - 1)

addUnigramWordWithoutMatching(b, word, probability) == AddUnigramLoopWithoutMatching(StartWriting(b), initWithNodeArrayPos(b, getRootPosition), word, probability, MaxWalk)

\* DynamicPatriciaTriePolicy::addUnigramWord on an updatable dictionary.
addUnigramWord(b, word, probability) == AddUnigramLoop(StartWriting(b), initWithNodeArrayPos(b, getRootPosition), word, probability, NOT_A_DICT_POS, MaxWalk)

\* A faulty addBigramWords, which moves the PtNode of word0 only when it has
\* no bigram list yet and otherwise adds the entry to the list where it is.
addBigramWordsMovingOnlyWithoutBigramList(ws, word0Pos, word1Pos, probability) ==
    LET newNodePos == TailPosition(ws.buf)
    IN Let(fetchNodeInfoFromBuffer(ws.buf, word0Pos), LAMBDA nodeReader :
       IF nodeReader.bigramsPos # NOT_A_DICT_POS THEN addNewBigramEntryToBigramList(ws, word1Pos, probability, nodeReader.bigramsPos) ELSE
       Let(markNodeAsMovedAndSetPosition(ws, nodeReader, newNodePos, newNodePos), LAMBDA w1 :
       Let(IF w1.ok THEN writePtNodeToBufferByCopyingPtNodeInfo(w1, nodeReader, nodeReader.parentPos, nodeReader.codePoints, nodeReader.probability, newNodePos) ELSE w1, LAMBDA w2 :
       Let(fetchNodeInfoFromBuffer(w2.buf, newNodePos), LAMBDA newNode :
           IF ~w2.ok THEN w2
           ELSE IF newNode.bigramsPos # NOT_A_DICT_POS
           THEN addNewBigramEntryToBigramList(w2, word1Pos, probability, newNode.bigramsPos)
           ELSE Let(writeNewBigramEntry(w2, word1Pos, probability, FALSE, w2.pos), LAMBDA w3 :
                    IF w3.ok
                    THEN writeFlags(w3, newNodePos, createAndGetFlags(HasBit(newNode.flags, FLAG_IS_BLACKLISTED), HasBit(newNode.flags, FLAG_IS_NOT_A_WORD), newNode.probability # NOT_A_PROBABILITY, newNode.shortcutPos # NOT_A_DICT_POS, TRUE, Len(newNode.codePoints) > 1))
                    ELSE w3)))))

\* DynamicPatriciaTrieWritingHelper::addBigramWords
addBigramWordsAt(ws, word0Pos, word1Pos, probability) ==
    LET newNodePos == TailPosition(ws.buf)
    IN Let(fetchNodeInfoFromBuffer(ws.buf, word0Pos), LAMBDA nodeReader :
       Let(markNodeAsMovedAndSetPosition(ws, nodeReader, newNodePos, newNodePos), LAMBDA w1 :
       Let(IF w1.ok THEN writePtNodeToBufferByCopyingPtNodeInfo(w1, nodeReader, nodeReader.parentPos, nodeReader.codePoints, nodeReader.probability, newNodePos) ELSE w1, LAMBDA w2 :
       Let(fetchNodeInfoFromBuffer(w2.buf, newNodePos), LAMBDA newNode :
           IF ~w2.ok THEN w2
           ELSE IF newNode.bigramsPos # NOT_A_DICT_POS
           THEN addNewBigramEntryToBigramList(w2, word1Pos, probability, newNode.bigramsPos)
           ELSE Let(writeNewBigramEntry(w2, word1Pos, probability, FALSE, w2.pos), LAMBDA w3 :
                    IF w3.ok
                    THEN writeFlags(w3, newNodePos, createAndGetFlags(HasBit(newNode.flags, FLAG_IS_BLACKLISTED), HasBit(newNode.flags, FLAG_IS_NOT_A_WORD), newNode.probability # NOT_A_PROBABILITY, newNode.shortcutPos # NOT_A_DICT_POS, TRUE, Len(newNode.codePoints) > 1))
                    ELSE w3)))))

\* An addBigramWords that looks up word0 only.
addBigramWordsWithoutLookupOfWord1(b, word0, word1, probability) ==
    Let(getTerminalNodePositionOfWord(b, word0), LAMBDA word0Pos :
        IF word0Pos = NOT_A_VALID_WORD_POS THEN Fail(StartWriting(b))
        ELSE addBigramWordsAt(StartWriting(b), word0Pos, getTerminalNodePositionOfWord(b, word1), probability))

\* DynamicPatriciaTriePolicy::addBigramWords on an updatable dictionary.
addBigramWords(b, word0, word1, probability) ==
    Let(getTerminalNodePositionOfWord(b, word0), LAMBDA word0Pos :
    Let(getTerminalNodePositionOfWord(b, word1), LAMBDA word1Pos :
        IF word0Pos = NOT_A_VALID_WORD_POS \/ word1Pos = NOT_A_VALID_WORD_POS THEN Fail(StartWriting(b))
        ELSE addBigramWordsAt(StartWriting(b), word0Pos, word1Pos, probability)))

\* DynamicPatriciaTrieWritingHelper::removeBigramWords
removeBigramWordsAt(ws, word0Pos, word1Pos) ==
    Let(fetchNodeInfoFromBuffer(ws.buf, word0Pos), LAMBDA nodeReader :
        IF nodeReader.bigramsPos = NOT_A_DICT_POS THEN Fail(ws) ELSE removeBigram(ws, nodeReader.bigramsPos, word1Pos))

\* DynamicPatriciaTriePolicy::removeBigramWords on an updatable dictionary.
removeBigramWords(b, word0, word1) ==
    Let(getTerminalNodePositionOfWord(b, word0), LAMBDA word0Pos :
    Let(getTerminalNodePositionOfWord(b, word1), LAMBDA word1Pos :
        IF word0Pos = NOT_A_VALID_WORD_POS \/ word1Pos = NOT_A_VALID_WORD_POS THEN Fail(StartWriting(b))
        ELSE removeBigramWordsAt(StartWriting(b), word0Pos, word1Pos)))

\* ------------------------------------------------- the bigram dictionary
\* DynamicPatriciaTriePolicy::getBigramsPositionOfNode
getBigramsPositionOfNode(b, nodePos) ==
    IF nodePos = NOT_A_VALID_WORD_POS THEN NOT_A_DICT_POS
    ELSE Let(fetchNodeInfoFromBuffer(b, nodePos), LAMBDA n : IF isDeleted(n.flags) THEN NOT_A_DICT_POS ELSE n.bigramsPos)

\* BigramDictionary::getBigramListPositionForWord
getBigramListPositionForWord(b, prevWord) ==
    IF 0 >= Len(prevWord) THEN NOT_A_DICT_POS
    ELSE Let(getTerminalNodePositionOfWord(b, prevWord), LAMBDA pos : IF pos = NOT_A_VALID_WORD_POS THEN NOT_A_DICT_POS ELSE getBigramsPositionOfNode(b, pos))

\* BigramDictionary::isValidBigram
isValidBigram(b, word0, word1) ==
    Let(getBigramListPositionForWord(b, word0), LAMBDA pos :
    Let(getTerminalNodePositionOfWord(b, word1), LAMBDA nextWordPos :
    Let(BigramsOf(b, pos), LAMBDA entries :
        /\ pos # NOT_A_DICT_POS
        /\ nextWordPos # NOT_A_VALID_WORD_POS
        /\ \E i \in 1..Len(entries) : entries[i].bigramPos = nextWordPos)))

\* ProbabilityUtils::backoff
backoff(unigramProbability) == IF unigramProbability = NOT_A_PROBABILITY THEN NOT_A_PROBABILITY ELSE Max(unigramProbability - 8, 0)

\* ProbabilityUtils::computeProbabilityForBigram: the unigram probability
\* moved toward MAX_PROBABILITY by (bigramProbability + 1) / 16 of the
\* distance, rounded.
computeProbabilityForBigram(unigramProbability, bigramProbability) ==
    IF unigramProbability = NOT_A_PROBABILITY \/ bigramProbability = NOT_A_PROBABILITY THEN backoff(unigramProbability)
    ELSE (16 * unigramProbability + (MAX_PROBABILITY - unigramProbability) * (bigramProbability + 1) + 8) \div 16

\* A faulty getProbability, which returns the unigram probability as it is
\* when there is no bigram probability.
getProbabilityWithoutBackoff(unigramProbability, bigramProbability) ==
    IF unigramProbability = NOT_A_PROBABILITY THEN NOT_A_PROBABILITY
    ELSE IF bigramProbability = NOT_A_PROBABILITY THEN unigramProbability
    ELSE computeProbabilityForBigram(unigramProbability, bigramProbability)

\* DynamicPatriciaTriePolicy::getProbability
getProbability(unigramProbability, bigramProbability) ==
    IF unigramProbability = NOT_A_PROBABILITY THEN NOT_A_PROBABILITY
    ELSE IF bigramProbability = NOT_A_PROBABILITY THEN backoff(unigramProbability)
    ELSE computeProbabilityForBigram(unigramProbability, bigramProbability)

\* DynamicPatriciaTriePolicy::getUnigramProbabilityOfPtNode
getUnigramProbabilityOfPtNode(b, nodePos) ==
    IF nodePos = NOT_A_VALID_WORD_POS THEN NOT_A_PROBABILITY
    ELSE Let(fetchNodeInfoFromBuffer(b, nodePos), LAMBDA n :
             IF isDeleted(n.flags) \/ HasBit(n.flags, FLAG_IS_BLACKLISTED) \/ HasBit(n.flags, FLAG_IS_NOT_A_WORD) THEN NOT_A_PROBABILITY
             ELSE getProbability(n.probability, NOT_A_PROBABILITY))

\* The PtNodes a traversal reads from rs on in one PtNodeArray, the arrays
\* its forward links chain to included, and whether the reading ended in an
\* error.
RECURSIVE ReadSiblings(_, _, _)
ReadSiblings(b, rs, fuel) ==
    IF isEnd(rs) \/ fuel = 0 THEN [nodes |-> <<>>, isError |-> rs.isError \/ ~isEnd(rs)]
    ELSE Let(ReadSiblings(b, readNextSiblingNode(b, rs), fuel - 1), LAMBDA rest : [nodes |-> <<rs.node>> \o rest.nodes, isError |-> rest.isError])

\* DynamicPatriciaTriePolicy::createAndGetAllChildNodes for the DicNode of
\* the PtNode at nodePos: what is pushed to childDicNodes for each PtNode of
\* its children array.
createAndGetAllChildNodes(b, nodePos) ==
    Let(fetchNodeInfoFromBuffer(b, nodePos), LAMBDA dicNode :
        IF ~hasChildren(dicNode) THEN <<>>
        ELSE Let(ReadSiblings(b, initWithNodeArrayPos(b, dicNode.childrenPos), MaxWalk).nodes, LAMBDA nodes :
                 [i \in 1..Len(nodes) |->
                     [pos |-> nodes[i].headPos, childrenPos |-> nodes[i].childrenPos, probability |-> nodes[i].probability,
                      isTerminal |-> isTerminal(nodes[i]) /\ ~isDeleted(nodes[i].flags), hasChildren |-> hasChildren(nodes[i]),
                      isBlacklistedOrNotAWord |-> HasBit(nodes[i].flags, FLAG_IS_BLACKLISTED) \/ HasBit(nodes[i].flags, FLAG_IS_NOT_A_WORD),
                      codePoints |-> nodes[i].codePoints]]))

\* The output arrays getPredictions is handed: MAX_RESULTS slots, zeroed.
NoPredictions == [i \in 1..MAX_RESULTS |-> [codePoints |-> <<>>, probability |-> 0]]

\* BigramDictionary::addWordBigram: the word is inserted before the first
\* slot of lower probability, or of equal probability and a longer word; the
\* slots from there on move down by one and the last one is dropped.  A slot
\* is MAX_WORD_LENGTH cells and holds the word up to its first 0; the 0 that
\* ends the word inserted is written right after its last code point, which
\* for a word of MAX_WORD_LENGTH code points is the first cell of the next
\* slot.
addWordBigram(outputs, word, probability) ==
    LET before == {i \in 1..MAX_RESULTS : probability > outputs[i].probability \/ (outputs[i].probability = probability /\ Len(word) < Len(outputs[i].codePoints))}
    IN IF before = {} THEN outputs
       ELSE LET insertAt == CHOOSE i \in before : \A j \in before : i <= j
            IN [i \in 1..MAX_RESULTS |->
                   IF i < insertAt THEN outputs[i]
                   ELSE IF i = insertAt THEN [codePoints |-> word, probability |-> probability]
                   ELSE IF i = insertAt + 1 /\ Len(word) >= MAX_WORD_LENGTH THEN [codePoints |-> <<>>, probability |-> outputs[i - 1].probability]
                   ELSE outputs[i - 1]]

\* Whether every write of addWordBigram is inside the arrays it is handed:
\* word[length] = 0 is past a word buffer of MAX_WORD_LENGTH cells when
\* length is MAX_WORD_LENGTH.
addWordBigramWritesInsideTheArrays(word) == Len(word) < MAX_WORD_LENGTH

\* CharUtils::toBaseLowerCase on the code points below 128.
toBaseLowerCase(c) == IF c >= 65 /\ c <= 90 THEN c + 32 ELSE c

\* CharUtils::toLowerCase on the code points below 128.
toLowerCase(c) == IF c >= 65 /\ c <= 90 THEN c + 32 ELSE c

\* A faulty checkFirstCharacter, which compares the last code point of the
\* word.
checkLastCharacter(word, inputCodePoints) == \E k \in 1..Min(MAX_ALTERNATIVES, Len(inputCodePoints)) : toBaseLowerCase(inputCodePoints[k]) = toBaseLowerCase(word[Len(word)])

\* BigramDictionary::checkFirstCharacter: word is the buffer the code points
\* of the successor were read into, of which the first cell is compared.
checkFirstCharacter(word, inputCodePoints) == \E k \in 1..Min(MAX_ALTERNATIVES, Len(inputCodePoints)) : toBaseLowerCase(inputCodePoints[k]) = toBaseLowerCase(word[1])

\* BigramDictionary::getPredictions, the loop over the bigram entries from
\* the i-th on.
RECURSIVE PredictionsLoop(_, _, _, _, _)
PredictionsLoop(b, entries, i, inputCodePoints, acc) ==
    IF i > Len(entries) THEN acc
    ELSE Let(getCodePointsAndProbability(b, entries[i].bigramPos, MAX_WORD_LENGTH), LAMBDA r :
         Let(IF r.codePoints = <<>> THEN acc.bigramBuffer ELSE r.codePoints, LAMBDA bigramBuffer :
             IF Len(inputCodePoints) < 1 \/ checkFirstCharacter(bigramBuffer, inputCodePoints)
             THEN PredictionsLoop(b, entries, i + 1, inputCodePoints,
                      [bigramCount |-> acc.bigramCount + 1,
                       outputs |-> addWordBigram(acc.outputs, r.codePoints, computeProbabilityForBigram(r.probability, entries[i].probability)),
                       bigramBuffer |-> IF r.codePoints = <<>> THEN <<0>> ELSE bigramBuffer])
             ELSE PredictionsLoop(b, entries, i + 1, inputCodePoints, [acc EXCEPT !.bigramBuffer = bigramBuffer])))

\* BigramDictionary::getPredictions: the returned count and the output
\* slots.  The second search is the one of the lower-cased previous word.
\* bigramBuffer is a local array that is not initialized: uninitialized is
\* what its first cell holds when the loop starts.  The buffer is written
\* only when the code points of a successor can be read, so it keeps the
\* code points of the successor before, or the 0 addWordBigram ended a word
\* of no code point with, when they cannot.
getPredictions(b, prevWord, inputCodePoints, uninitialized) ==
    Let(getBigramListPositionForWord(b, prevWord), LAMBDA exactPos :
    Let(IF exactPos = NOT_A_DICT_POS THEN getBigramListPositionForWord(b, [i \in 1..Len(prevWord) |-> toLowerCase(prevWord[i])]) ELSE exactPos, LAMBDA pos :
        IF pos = NOT_A_DICT_POS THEN [bigramCount |-> 0, outputs |-> NoPredictions]
        ELSE Let(PredictionsLoop(b, BigramsOf(b, pos), 1, inputCodePoints, [bigramCount |-> 0, outputs |-> NoPredictions, bigramBuffer |-> <<uninitialized>>]), LAMBDA done :
                 [bigramCount |-> Min(done.bigramCount, MAX_RESULTS), outputs |-> done.outputs])))

\* ------------------------------------------------- the multi bigram map
\* BloomFilter: the bit a position sets and tests.
BloomFilterIndex(position) == position % BIGRAM_FILTER_MODULO

\* MultiBigramMap::BigramMap::init: the map from each bigram position of
\* the list of the PtNode at nodePos to the probability of the last entry
\* read for it, and the bloom filter of the positions.
BigramMap_init(b, nodePos) ==
    Let(BigramsOf(b, getBigramsPositionOfNode(b, nodePos)), LAMBDA entries :
        LET positions == {entries[i].bigramPos : i \in 1..Len(entries)}
            lastOf(t) == CHOOSE i \in 1..Len(entries) : entries[i].bigramPos = t /\ \A j \in 1..Len(entries) : entries[j].bigramPos = t => j <= i
        IN [mBigramMap |-> [t \in positions |-> entries[lastOf(t)].probability], mBloomFilter |-> {BloomFilterIndex(t) : t \in positions}])

\* A faulty BigramMap::getBigramProbability, which takes the answer of the
\* bloom filter for the answer of the hash map.
BigramMap_getBigramProbabilityByBloomFilterOnly(bigramMap, nextWordPosition, unigramProbability) ==
    IF BloomFilterIndex(nextWordPosition) \in bigramMap.mBloomFilter
    THEN computeProbabilityForBigram(unigramProbability, bigramMap.mBigramMap[CHOOSE t \in DOMAIN bigramMap.mBigramMap : BloomFilterIndex(t) = BloomFilterIndex(nextWordPosition)])
    ELSE backoff(unigramProbability)

\* MultiBigramMap::BigramMap::getBigramProbability
BigramMap_getBigramProbability(bigramMap, nextWordPosition, unigramProbability) ==
    IF BloomFilterIndex(nextWordPosition) \in bigramMap.mBloomFilter /\ nextWordPosition \in DOMAIN bigramMap.mBigramMap
    THEN computeProbabilityForBigram(unigramProbability, bigramMap.mBigramMap[nextWordPosition])
    ELSE backoff(unigramProbability)

\* MultiBigramMap::readBigramProbabilityFromBinaryDictionary: the first
\* entry of the list for nextWordPosition decides.
readBigramProbabilityFromBinaryDictionary(b, nodePos, nextWordPosition, unigramProbability) ==
    Let(BigramsOf(b, getBigramsPositionOfNode(b, nodePos)), LAMBDA entries :
        LET hits == {i \in 1..Len(entries) : entries[i].bigramPos = nextWordPosition}
        IN IF hits = {} THEN backoff(unigramProbability)
           ELSE computeProbabilityForBigram(unigramProbability, entries[CHOOSE i \in hits : \A j \in hits : i <= j].probability))

\* A getBigramProbability that caches every word position asked about.
getBigramProbabilityCachingWithoutLimit(maps, b, wordPosition, nextWordPosition, unigramProbability) ==
    Let([p \in DOMAIN maps \cup {wordPosition} |-> IF p = wordPosition THEN BigramMap_init(b, wordPosition) ELSE maps[p]], LAMBDA added :
        [mBigramMaps |-> added, probability |-> BigramMap_getBigramProbability(added[wordPosition], nextWordPosition, unigramProbability)])

\* MultiBigramMap::getBigramProbability: the maps after the call and the
\* probability returned.  A word position already cached is answered from
\* its map; another one is cached first while there is room, and read from
\* the dictionary when there is none.
getBigramProbability(maps, b, wordPosition, nextWordPosition, unigramProbability) ==
    IF wordPosition \in DOMAIN maps
    THEN [mBigramMaps |-> maps, probability |-> BigramMap_getBigramProbability(maps[wordPosition], nextWordPosition, unigramProbability)]
    ELSE IF Cardinality(DOMAIN maps) < MAX_CACHED_PREV_WORDS_IN_BIGRAM_MAP
    THEN Let([p \in DOMAIN maps \cup {wordPosition} |-> IF p = wordPosition THEN BigramMap_init(b, wordPosition) ELSE maps[p]], LAMBDA added :
             [mBigramMaps |-> added, probability |-> BigramMap_getBigramProbability(added[wordPosition], nextWordPosition, unigramProbability)])
    ELSE [mBigramMaps |-> maps, probability |-> readBigramProbabilityFromBinaryDictionary(b, wordPosition, nextWordPosition, unigramProbability)]

\* A clear that keeps what is cached.
clearKeepingTheCachedMaps(maps) == maps

\* MultiBigramMap::clear
clear(maps) == <<>>

\* ------------------------------------------ the typing decoder wrapper
\* A wrapper that asks its decoder whether it holds one or not.
getSuggestionsOfWhateverDecoder(decoder, count) == count

\* TypingDecoderWrapper::getSuggestions: 0 without a decoder, and what the
\* decoder returns with one.
getSuggestions(decoder, count) == IF ~decoder THEN 0 ELSE count

\* The static sIncrementalDecoderFactoryMethod when no factory method is
\* set: a null pointer.
NoFactoryMethod == "none"

\* The factory methods that can be set: a function pointer of the type
\* IncrementalDecoderInterface *(*)(int, int) may return a decoder or a null
\* pointer.
FactoryMethods == {"returnsNull", "returnsDecoder"}

\* The call sIncrementalDecoderFactoryMethod(maxWordLength, maxWords): TRUE
\* for a decoder, FALSE for a null pointer.
CallFactoryMethod(factoryMethod) == factoryMethod = "returnsDecoder"

\* A faulty getIncrementalDecoderInstance, which gives a decoder whether a
\* factory method is set or not.
getIncrementalDecoderInstanceWithoutFactoryMethod(factoryMethod) == TRUE

\* TypingDecoderWrapper::getIncrementalDecoderInstance: what the factory
\* method returns when one is set, and a null pointer otherwise.
getIncrementalDecoderInstance(factoryMethod) == IF factoryMethod # NoFactoryMethod THEN CallFactoryMethod(factoryMethod) ELSE FALSE

\* ------------------------------------------------ the flush with GC
\* TraversePolicyToUpdateUnigramProbabilityAndMarkUselessPtNodesAsDeleted,
\* post-order from the PtNodeArray at arrayPos: the PtNodes found useless (not
\* terminal, or a terminal the forgetting curve says not to keep, and no
\* child kept) and the number of PtNodes of the array kept.  discarded holds
\* the positions of the terminals not to keep: none in a dictionary that is
\* not a decaying one.
RECURSIVE MarkUselessPtNodes(_, _, _, _)
MarkUselessPtNodes(b, arrayPos, discarded, fuel) ==
    IF fuel = 0 THEN [useless |-> {}, kept |-> 0]
    ELSE Let(ReadSiblings(b, initWithNodeArrayPos(b, arrayPos), MaxWalk).nodes, LAMBDA nodes :
         Let([i \in 1..Len(nodes) |-> IF hasChildren(nodes[i]) THEN MarkUselessPtNodes(b, nodes[i].childrenPos, discarded, fuel - 1) ELSE [useless |-> {}, kept |-> 0]], LAMBDA below :
         Let({i \in 1..Len(nodes) : (~isTerminal(nodes[i]) \/ nodes[i].headPos \in discarded) /\ below[i].kept = 0}, LAMBDA u :
             [useless |-> UNION {below[i].useless : i \in 1..Len(nodes)} \cup {nodes[i].headPos : i \in u}, kept |-> Len(nodes) - Cardinality(u)])))

\* PtNodeWriter::markPtNodeAsDeleted on each PtNode of the set.
markPtNodesAsDeleted(b, heads) == [p \in 1..Len(b) |-> IF p \in heads THEN updateAndGetFlags(b[p], FALSE, TRUE) ELSE b[p]]

\* The cells a PtNode takes in the buffer written.
PtNodeSize(node, shortcutCells, bigramCount) == 2 + Len(node.codePoints) + (IF Len(node.codePoints) > 1 THEN 1 ELSE 0) + (IF isTerminal(node) THEN 1 ELSE 0) + 1 + shortcutCells + 2 * bigramCount

\* The entries copyAllBigrams copies: those with a valid target, the target
\* resolved to its current position.
ValidBigrams(b, node) == SelectSeq(BigramsOf(b, node.bigramsPos), LAMBDA e : e.bigramPos # NOT_A_VALID_WORD_POS)

\* TraversePolicyToPlaceAndWriteValidPtNodesToBuffer::onVisitingPtNode for
\* the PtNodes of one array from the i-th on: a deleted PtNode is mapped to
\* NOT_A_DICT_POS and not written, another one is written at the tail.
RECURSIVE PlacePtNodes(_, _, _, _)
PlacePtNodes(b, nodes, i, gc) ==
    IF i > Len(nodes) THEN gc
    ELSE IF isDeleted(nodes[i].flags)
    THEN PlacePtNodes(b, nodes, i + 1, [gc EXCEPT !.items = Append(@, [kind |-> "ptNode", oldPos |-> nodes[i].headPos, newPos |-> NOT_A_DICT_POS, count |-> 0, node |-> nodes[i], shortcuts |-> <<>>, bigrams |-> <<>>])])
    ELSE Let(ValidBigrams(b, nodes[i]), LAMBDA entries :
         Let(ShortcutListAt(b, nodes[i].shortcutPos), LAMBDA shortcuts :
             PlacePtNodes(b, nodes, i + 1, [gc EXCEPT !.items = Append(@, [kind |-> "ptNode", oldPos |-> nodes[i].headPos, newPos |-> gc.tail, count |-> 0, node |-> nodes[i], shortcuts |-> shortcuts, bigrams |-> entries]), !.tail = @ + PtNodeSize(nodes[i], Len(shortcuts), Len(entries))])))

\* The PtNodeArray level pre-order traversal of the place-and-write pass: the
\* array at arrayPos is placed at the tail (its size, its PtNodes that are
\* not deleted, an empty forward link), then the children arrays of its
\* PtNodes in turn.
RECURSIVE PlacePtNodeArray(_, _, _, _)
RECURSIVE PlaceChildren(_, _, _, _, _)
PlacePtNodeArray(b, arrayPos, gc, fuel) ==
    Let(ReadSiblings(b, initWithNodeArrayPos(b, arrayPos), MaxWalk), LAMBDA r :
        IF r.isError \/ fuel = 0 \/ ~gc.ok THEN [gc EXCEPT !.ok = FALSE]
        ELSE Let(PlacePtNodes(b, r.nodes, 1, [gc EXCEPT !.items = Append(@, [kind |-> "ptNodeArray", oldPos |-> arrayPos, newPos |-> gc.tail, count |-> Len(SelectSeq(r.nodes, LAMBDA n : ~isDeleted(n.flags))), node |-> InvalidPtNode, shortcuts |-> <<>>, bigrams |-> <<>>]), !.tail = @ + 1]), LAMBDA placed :
                 PlaceChildren(b, r.nodes, 1, [placed EXCEPT !.items = Append(@, [kind |-> "forwardLink", oldPos |-> NOT_A_DICT_POS, newPos |-> placed.tail, count |-> 0, node |-> InvalidPtNode, shortcuts |-> <<>>, bigrams |-> <<>>]), !.tail = @ + 1], fuel)))

PlaceChildren(b, nodes, i, gc, fuel) ==
    IF i > Len(nodes) \/ ~gc.ok THEN gc
    ELSE IF hasChildren(nodes[i]) THEN PlaceChildren(b, nodes, i + 1, PlacePtNodeArray(b, nodes[i].childrenPos, gc, fuel - 1), fuel)
    ELSE PlaceChildren(b, nodes, i + 1, gc, fuel)

\* A relocation map that holds no position: every position field is left as
\* it was in the buffer read.
PositionsLeftUnrelocated(items, kind) == [p \in {} |-> NOT_A_DICT_POS]

\* DictPositionRelocationMap: one of its two maps, from the positions in the
\* buffer read to the positions in the buffer written.
PositionRelocationMap(items, kind) ==
    Let({i \in 1..Len(items) : items[i].kind = kind}, LAMBDA of :
        [p \in {items[i].oldPos : i \in of} |-> items[CHOOSE i \in of : items[i].oldPos = p].newPos])

\* The lookup of updateAllPositionFields: a position the map does not hold is
\* left as it is.
Relocate(map, pos) == IF pos \in DOMAIN map THEN map[pos] ELSE pos

\* The cells of a PtNode written at newPos once its position fields went
\* through the maps (TraversePolicyToUpdateAllPositionFields).
PtNodeCells(node, shortcuts, entries, newPos, arrayMap, nodeMap) ==
    LET label == IF Len(node.codePoints) > 1 THEN Append(node.codePoints, NOT_A_CODE_POINT) ELSE node.codePoints
        childrenPosFieldPos == newPos + 2 + Len(label) + (IF isTerminal(node) THEN 1 ELSE 0)
        bigramsPos == childrenPosFieldPos + 1 + Len(shortcuts)
    IN <<createAndGetFlags(HasBit(node.flags, FLAG_IS_BLACKLISTED), HasBit(node.flags, FLAG_IS_NOT_A_WORD), isTerminal(node), node.shortcutPos # NOT_A_DICT_POS, Len(entries) > 0, Len(node.codePoints) > 1),
         IF node.parentPos = NOT_A_DICT_POS THEN 0 ELSE Relocate(nodeMap, node.parentPos) - newPos>>
       \o label
       \o (IF isTerminal(node) THEN <<node.probability>> ELSE <<>>)
       \o <<OffsetFieldValue(childrenPosFieldPos, IF node.childrenPos = NOT_A_DICT_POS THEN NOT_A_DICT_POS ELSE Relocate(arrayMap, node.childrenPos))>>
       \o shortcuts
       \o [k \in 1..(2 * Len(entries)) |->
              IF k % 2 = 1 THEN BigramEntryFlags(entries[(k + 1) \div 2].probability, k + 1 < 2 * Len(entries))
              ELSE BigramTargetFieldValue(bigramsPos - 1 + k, Relocate(nodeMap, entries[k \div 2].bigramPos))]

\* The buffer written: the cells of the items placed, in order.
RECURSIVE WrittenCells(_, _, _, _)
WrittenCells(items, i, arrayMap, nodeMap) ==
    IF i > Len(items) THEN <<>>
    ELSE (CASE items[i].kind = "ptNodeArray" -> <<items[i].count>>
            [] items[i].kind = "forwardLink" -> <<0>>
            [] OTHER -> IF items[i].newPos = NOT_A_DICT_POS THEN <<>> ELSE PtNodeCells(items[i].node, items[i].shortcuts, items[i].bigrams, items[i].newPos, arrayMap, nodeMap))
         \o WrittenCells(items, i + 1, arrayMap, nodeMap)

\* The phases of runGC in the order of the code, each of which makes runGC
\* return false when it fails; truncateEntries is run on a decaying
\* dictionary only (HeaderPolicy::isDecayingDict).
GCPhases(isDecayingDict) ==
    << "updateAllProbabilityEntriesForGC" >> \o (IF isDecayingDict THEN << "truncateEntries" >> ELSE <<>>)
    \o << "markUselessPtNodesAsDeleted", "placeAndWriteValidPtNodesToBuffer", "runGCTerminalIds",
          "languageModelDictContentRunGC", "shortcutDictContentRunGC", "updateAllPositionFields", "updateAllPtNodeFlagsAndTerminalIds" >>

\* The two steps of writeToDictFile, which writeToDictFileWithGC makes after
\* runGC.
WriteSteps == << "fillInAndWriteHeaderToBuffer", "flushHeaderAndDictBuffers" >>

FlushSteps(isDecayingDict) == GCPhases(isDecayingDict) \o WriteSteps

\* The steps a call may be told to fail at; 0 is for none.  The side tables
\* and the header are not part of the buffer, so whether their steps fail
\* is an input of the call.
FailingSteps(isDecayingDict) == 0..Len(FlushSteps(isDecayingDict))

\* The place of a phase among the phases of runGC.
PhaseIndex(isDecayingDict, phase) == CHOOSE i \in 1..Len(GCPhases(isDecayingDict)) : GCPhases(isDecayingDict)[i] = phase

\* No header was written.
NoHeader == [updatesLastDecayedTime |-> FALSE, unigramCount |-> 0, bigramCount |-> 0, extendedRegionSize |-> 0, written |-> FALSE]

\* HeaderPolicy::fillInAndWriteHeaderToBuffer: what the header is written
\* with.
Header(updatesLastDecayedTime, unigramCount, bigramCount, extendedRegionSize) ==
    [updatesLastDecayedTime |-> updatesLastDecayedTime, unigramCount |-> unigramCount, bigramCount |-> bigramCount, extendedRegionSize |-> extendedRegionSize, written |-> TRUE]

\* BufferWithExtendableBuffer::getUsedAdditionalBufferSize: what the buffer
\* holds beyond the size it was opened with.
getUsedAdditionalBufferSize(b, originalBufferSize) == Len(b) - originalBufferSize

\* Ver4PatriciaTrieWritingHelper::runGC: the probability entries are updated
\* and counted into the entry count table, on a decaying dictionary the
\* entries are truncated and counted again, the useless PtNodes are marked
\* deleted in the buffer in use (the writer of the first traversal is the
\* one of mBuffers' trie buffer), the valid PtNodes are placed and written to
\* the new buffer, and every position field of the new buffer is updated
\* through the relocation map; the first phase that fails ends the call.
\* entryCountTable is what updateAllProbabilityEntriesForGC counts and
\* truncatedEntryCountTable what truncateEntries leaves, a unigram count and
\* a bigram count each; discarded holds the terminals whose entries are not
\* kept.  The result, the phases run, the buffer in use after them, the new
\* buffer, and the counts put out (none when the call fails: the out
\* parameters are assigned last).
runGC(b, discarded, failing, isDecayingDict, entryCountTable, truncatedEntryCountTable) ==
    Let(PhaseIndex(isDecayingDict, "markUselessPtNodesAsDeleted"), LAMBDA markAt :
    Let(markPtNodesAsDeleted(b, MarkUselessPtNodes(b, getRootPosition, discarded, MaxWalk).useless), LAMBDA marked :
    Let(PlacePtNodeArray(marked, getRootPosition, [items |-> <<>>, tail |-> getRootPosition, ok |-> TRUE], MaxWalk), LAMBDA placed :
    Let(IF ~placed.ok /\ failing \notin 1..(markAt + 1) THEN markAt + 1 ELSE IF failing \in 1..Len(GCPhases(isDecayingDict)) THEN failing ELSE 0, LAMBDA failedAt :
        IF failedAt # 0 THEN [ok |-> FALSE, phases |-> SubSeq(GCPhases(isDecayingDict), 1, failedAt), marked |-> IF failedAt >= markAt THEN marked ELSE b, written |-> <<>>, entryCounts |-> <<>>]
        ELSE [ok |-> TRUE, phases |-> GCPhases(isDecayingDict), marked |-> marked, written |-> WrittenCells(placed.items, 1, PositionRelocationMap(placed.items, "ptNodeArray"), PositionRelocationMap(placed.items, "ptNode")),
              entryCounts |-> IF isDecayingDict THEN truncatedEntryCountTable ELSE entryCountTable]))))

\* A writeToDictFileWithGC that hands the new buffers to the flush whatever
\* runGC and the header write returned.
writeToDictFileWithGCWhateverFailed(b, discarded, failing, isDecayingDict, entryCountTable, truncatedEntryCountTable) ==
    Let(runGC(b, discarded, 0, isDecayingDict, entryCountTable, truncatedEntryCountTable), LAMBDA gc :
        [result |-> failing = 0, steps |-> SubSeq(FlushSteps(isDecayingDict), 1, IF failing = 0 THEN Len(FlushSteps(isDecayingDict)) ELSE failing), flushed |-> TRUE, marked |-> gc.marked, written |-> gc.written,
         header |-> Header(TRUE, gc.entryCounts[1], gc.entryCounts[2], 0)])

\* Ver4PatriciaTrieWritingHelper::writeToDictFileWithGC: runGC, then the
\* header, written with the counts of runGC, then the flush of the new
\* buffers, each only when the one before returned true.  The result, the
\* steps run, whether the new buffers became the dictionary file, the buffer
\* in use, the new buffer and the header.
writeToDictFileWithGC(b, discarded, failing, isDecayingDict, entryCountTable, truncatedEntryCountTable) ==
    Let(runGC(b, discarded, failing, isDecayingDict, entryCountTable, truncatedEntryCountTable), LAMBDA gc :
        IF ~gc.ok THEN [result |-> FALSE, steps |-> gc.phases, flushed |-> FALSE, marked |-> gc.marked, written |-> <<>>, header |-> NoHeader]
        ELSE IF failing = Len(GCPhases(isDecayingDict)) + 1 THEN [result |-> FALSE, steps |-> SubSeq(FlushSteps(isDecayingDict), 1, failing), flushed |-> FALSE, marked |-> gc.marked, written |-> <<>>, header |-> NoHeader]
        ELSE [result |-> failing # Len(FlushSteps(isDecayingDict)), steps |-> FlushSteps(isDecayingDict), flushed |-> failing # Len(FlushSteps(isDecayingDict)), marked |-> gc.marked, written |-> gc.written,
              header |-> Header(TRUE, gc.entryCounts[1], gc.entryCounts[2], 0)])

\* Ver4PatriciaTrieWritingHelper::writeToDictFile: the header, written with
\* the counts given and, as the size of the extended region, the one of the
\* header policy plus the additional buffer in use, then the flush of the
\* buffers in use, without a GC; failing is the step made to fail, 0 for
\* none.  The fields are those of writeToDictFileWithGC, the buffer flushed
\* being the one in use.
writeToDictFile(b, headerExtendedRegionSize, originalBufferSize, unigramCount, bigramCount, failing) ==
    Let(headerExtendedRegionSize + getUsedAdditionalBufferSize(b, originalBufferSize), LAMBDA extendedRegionSize :
        IF failing = 1 THEN [result |-> FALSE, steps |-> SubSeq(WriteSteps, 1, 1), flushed |-> FALSE, marked |-> b, written |-> <<>>, header |-> NoHeader]
        ELSE [result |-> failing # Len(WriteSteps), steps |-> WriteSteps, flushed |-> failing # Len(WriteSteps), marked |-> b, written |-> b,
              header |-> Header(FALSE, unigramCount, bigramCount, extendedRegionSize)])

\* ------------------------------------------------------------- the state
VARIABLES buf, prevBuf, lastOp, lastLog, unigrams, bigrams, failed, nOps, gcBuf, lastFlush, mBigramMaps, lastQuery, answer,
          sIncrementalDecoderFactoryMethod, mIncrementalDecoderInterface, isUpdatable,
          mExtendedRegionSize, mOriginalBufferSize

vars == <<buf, prevBuf, lastOp, lastLog, unigrams, bigrams, failed, nOps, gcBuf, lastFlush, mBigramMaps, lastQuery, answer, sIncrementalDecoderFactoryMethod, mIncrementalDecoderInterface, isUpdatable, mExtendedRegionSize, mOriginalBufferSize>>

\* The state of a search: the maps its MultiBigramMap caches and the last
\* probability it was asked for, and what the last read-only query of the
\* dictionary returned.
searchVars == <<mBigramMaps, lastQuery, answer>>

\* isUpdatable is what mBuffer->isUpdatable() returns for the buffer the
\* dictionary was opened on.
\* The typing decoder wrapper: whether a factory method is set, and whether
\* the wrapper holds a decoder.
decoderVars == <<sIncrementalDecoderFactoryMethod, mIncrementalDecoderInterface>>

\* The state of the dictionary, the record of the calls that changed it and
\* the buffer the last flush with GC wrote (empty before the first one)
\* with the steps the last call of it ran.
dictVars == <<buf, prevBuf, lastOp, lastLog, unigrams, bigrams, failed, nOps, gcBuf, lastFlush>>

\* mExtendedRegionSize is what HeaderPolicy::getExtendedRegionSize() returns,
\* the size of the extended region the header of the file opened records,
\* and mOriginalBufferSize the size of the trie buffer when it was opened:
\* what the buffer holds beyond it is its additional buffer.  Sizes are
\* counted in cells.  Neither changes while the dictionary is open.
sizeVars == <<mExtendedRegionSize, mOriginalBufferSize>>

NoQuery == [asked |-> FALSE, wordPosition |-> NOT_A_DICT_POS, nextWordPosition |-> NOT_A_DICT_POS, unigramProbability |-> NOT_A_PROBABILITY, probability |-> NOT_A_PROBABILITY]

\* No flush with GC was the last call.
NoFlush == [failing |-> 0, steps |-> <<>>, flushed |-> FALSE, isDecayingDict |-> FALSE, header |-> NoHeader]

\* No read-only query was the last call.
NoAnswer == <<>>

NoOp == [kind |-> "none", word0 |-> <<>>, word1 |-> <<>>, probability |-> NOT_A_PROBABILITY, result |-> TRUE]

\* An empty updatable dictionary: the root PtNodeArray holds no PtNode and
\* has no forward link.
EmptyDictionary == <<0, 0>>

\* The dictionary a run opens: the words of an initial word list added to an
\* empty dictionary.
RECURSIVE DictionaryOf(_, _)
DictionaryOf(wordList, n) == IF n = 0 THEN EmptyDictionary ELSE addUnigramWord(DictionaryOf(wordList, n - 1), wordList[n], InitialProbability).buf

\* The size of the extended region in the header of a file that
\* writeToDictFile wrote for b, b having grown from an empty dictionary.
ExtendedRegionSizeOfFlushed(b) == writeToDictFile(b, 0, Len(EmptyDictionary), 0, 0, 0).header.extendedRegionSize

\* A dictionary file in which the PtNode of "ab" has a shortcut list, of one
\* target, and the child "c": the root PtNodeArray of one PtNode at 1, the
\* PtNode of "ab" at 2 with its shortcut list at 9, the PtNodeArray of its
\* child at 12.  No call of the writing helper adds a shortcut list, so a
\* dictionary has the shortcut lists of the file it was opened from.
DictionaryFileWithShortcuts == <<1, 248, 0, 1, 2, -1, InitialProbability, 4, 2, 7, 0, 1, 208, -11, 3, InitialProbability, 0, 0>>

\* The dictionaries a run may open, with the words they hold.
\* The file writeToDictFile wrote for the words of wordList added to an
\* empty dictionary.
FlushedDictionaryOf(wordList) ==
    Let(DictionaryOf(wordList, Len(wordList)), LAMBDA b : [wordList |-> wordList, buf |-> b, extendedRegionSize |-> ExtendedRegionSizeOfFlushed(b)])

InitialDictionaries ==
    {FlushedDictionaryOf(wordList) : wordList \in InitialWordLists}
    \cup {[wordList |-> << <<1, 2>>, <<1, 2, 3>> >>, buf |-> DictionaryFileWithShortcuts, extendedRegionSize |-> 0]}

Init ==
    \E opened \in InitialDictionaries :
        /\ buf = opened.buf
        /\ prevBuf = buf
        /\ lastOp = NoOp
        /\ lastLog = <<>>
        /\ unigrams = {<<opened.wordList[i], InitialProbability>> : i \in 1..Len(opened.wordList)}
        /\ bigrams = {}
        /\ failed = FALSE
        /\ nOps = 0
        /\ gcBuf = <<>>
        /\ lastFlush = NoFlush
        /\ mBigramMaps = <<>>
        /\ lastQuery = NoQuery
        /\ answer = NoAnswer
        /\ sIncrementalDecoderFactoryMethod = NoFactoryMethod
        /\ mIncrementalDecoderInterface = FALSE
        /\ isUpdatable = TRUE
        /\ mExtendedRegionSize = opened.extendedRegionSize
        /\ mOriginalBufferSize = Len(buf)

\* The unigram record with the word of w replaced.
WithUnigram(us, word, probability) == {u \in us : u[1] # word} \cup {<<word, probability>>}

\* A mutation call returns: the buffer it leaves, the writes it made and its
\* result, with the buffer it was called on kept for comparison.
Returns(ws, kind, word0, word1, probability) ==
    /\ nOps < MaxOps
    /\ nOps' = nOps + 1
    /\ buf' = ws.buf
    /\ prevBuf' = buf
    /\ lastLog' = ws.log
    /\ lastOp' = [kind |-> kind, word0 |-> word0, word1 |-> word1, probability |-> probability, result |-> ws.ok]
    /\ failed' = (failed \/ ~ws.ok)
    /\ lastFlush' = NoFlush

AddUnigramWord ==
    \E word \in Words, probability \in Probabilities :
        /\ Returns(addUnigramWord(buf, word, probability), "addUnigramWord", word, <<>>, probability)
        /\ unigrams' = IF lastOp'.result THEN WithUnigram(unigrams, word, probability) ELSE unigrams
        /\ UNCHANGED <<bigrams, gcBuf, searchVars, decoderVars, isUpdatable, sizeVars>>

AddBigramWords ==
    \E pair \in BigramPairs, probability \in BigramProbabilities :
        /\ Returns(addBigramWords(buf, pair[1], pair[2], probability), "addBigramWords", pair[1], pair[2], probability)
        /\ bigrams' = IF lastOp'.result THEN bigrams \cup {<<pair[1], pair[2]>>} ELSE bigrams
        /\ UNCHANGED <<unigrams, gcBuf, searchVars, decoderVars, isUpdatable, sizeVars>>

RemoveBigramWords ==
    \E pair \in BigramPairs :
        /\ Returns(removeBigramWords(buf, pair[1], pair[2]), "removeBigramWords", pair[1], pair[2], NOT_A_PROBABILITY)
        /\ bigrams' = bigrams \ {<<pair[1], pair[2]>>}
        /\ UNCHANGED <<unigrams, gcBuf, searchVars, decoderVars, isUpdatable, sizeVars>>

\* A flush returns: the buffer in use keeps the marks of the GC, and a
\* successful flush leaves the buffer flushed as the dictionary file.
FlushReturns(r, kind, failing, isDecayingDict) ==
    /\ nOps < MaxOps
    /\ nOps' = nOps + 1
    /\ buf' = r.marked
    /\ prevBuf' = buf
    /\ lastLog' = <<>>
    /\ lastOp' = [kind |-> kind, word0 |-> <<>>, word1 |-> <<>>, probability |-> NOT_A_PROBABILITY, result |-> r.result]
    /\ lastFlush' = [failing |-> failing, steps |-> r.steps, flushed |-> r.flushed, isDecayingDict |-> isDecayingDict, header |-> r.header]
    /\ gcBuf' = IF r.flushed THEN r.written ELSE gcBuf

\* The entry count table updateAllProbabilityEntriesForGC fills in: the
\* words and the bigrams of the dictionary.
EntryCountTable == <<Cardinality(unigrams), Cardinality(bigrams)>>

\* flushWithGC of a dictionary that is not a decaying one: every terminal is
\* kept and no entry is truncated.
FlushWithGC ==
    \E failing \in FailingSteps(FALSE) :
        /\ FlushReturns(writeToDictFileWithGC(buf, {}, failing, FALSE, EntryCountTable, EntryCountTable), "flushWithGC", failing, FALSE)
        /\ UNCHANGED <<unigrams, bigrams, failed, searchVars, decoderVars, isUpdatable, sizeVars>>

\* flush: writeToDictFile with the counts of the dictionary.
Flush ==
    \E failing \in 0..Len(WriteSteps) :
        /\ FlushReturns(writeToDictFile(buf, mExtendedRegionSize, mOriginalBufferSize, EntryCountTable[1], EntryCountTable[2], failing), "flush", failing, FALSE)
        /\ UNCHANGED <<unigrams, bigrams, failed, searchVars, decoderVars, isUpdatable, sizeVars>>

Next == AddUnigramWord \/ AddBigramWords \/ RemoveBigramWords \/ FlushWithGC \/ Flush

Spec == Init /\ [][Next]_vars

\* ------------------------------------ updates of a dictionary opened
\* A faulty addUnigramWord, which does not ask whether the buffer is
\* updatable.
addUnigramWordWhetherUpdatableOrNot(updatable, b, word, probability) == addUnigramWord(b, word, probability)

\* DynamicPatriciaTriePolicy::addUnigramWord, addBigramWords and
\* removeBigramWords: each returns false at once when the buffer is not
\* updatable.
addUnigramWordIfUpdatable(updatable, b, word, probability) == IF ~updatable THEN Fail(StartWriting(b)) ELSE addUnigramWord(b, word, probability)

addBigramWordsIfUpdatable(updatable, b, word0, word1, probability) == IF ~updatable THEN Fail(StartWriting(b)) ELSE addBigramWords(b, word0, word1, probability)

removeBigramWordsIfUpdatable(updatable, b, word0, word1) == IF ~updatable THEN Fail(StartWriting(b)) ELSE removeBigramWords(b, word0, word1)

\* The dictionary of "ab" and "abc", "abc" being a next word of "ab", opened
\* on a buffer that is updatable or on one that is not.
OpenedInit ==
    /\ buf = addBigramWords(DictionaryOf(<< <<1, 2>>, <<1, 2, 3>> >>, 2), <<1, 2>>, <<1, 2, 3>>, 1).buf
    /\ prevBuf = buf
    /\ lastOp = NoOp
    /\ lastLog = <<>>
    /\ unigrams = {<<<<1, 2>>, InitialProbability>>, <<<<1, 2, 3>>, InitialProbability>>}
    /\ bigrams = {<<<<1, 2>>, <<1, 2, 3>>>>}
    /\ failed = FALSE
    /\ nOps = 0
    /\ gcBuf = <<>>
    /\ lastFlush = NoFlush
    /\ mBigramMaps = <<>>
    /\ lastQuery = NoQuery
    /\ answer = NoAnswer
    /\ sIncrementalDecoderFactoryMethod = NoFactoryMethod
    /\ mIncrementalDecoderInterface = FALSE
    /\ isUpdatable \in BOOLEAN
    /\ mExtendedRegionSize = ExtendedRegionSizeOfFlushed(buf)
    /\ mOriginalBufferSize = Len(buf)

AddUnigramWordIfUpdatable ==
    \E word \in Words, probability \in Probabilities :
        /\ Returns(addUnigramWordIfUpdatable(isUpdatable, buf, word, probability), "addUnigramWord", word, <<>>, probability)
        /\ unigrams' = IF lastOp'.result THEN WithUnigram(unigrams, word, probability) ELSE unigrams
        /\ UNCHANGED <<bigrams, gcBuf, searchVars, decoderVars, isUpdatable, sizeVars>>

AddBigramWordsIfUpdatable ==
    \E pair \in BigramPairs, probability \in BigramProbabilities :
        /\ Returns(addBigramWordsIfUpdatable(isUpdatable, buf, pair[1], pair[2], probability), "addBigramWords", pair[1], pair[2], probability)
        /\ bigrams' = IF lastOp'.result THEN bigrams \cup {<<pair[1], pair[2]>>} ELSE bigrams
        /\ UNCHANGED <<unigrams, gcBuf, searchVars, decoderVars, isUpdatable, sizeVars>>

RemoveBigramWordsIfUpdatable ==
    \E pair \in BigramPairs :
        /\ Returns(removeBigramWordsIfUpdatable(isUpdatable, buf, pair[1], pair[2]), "removeBigramWords", pair[1], pair[2], NOT_A_PROBABILITY)
        /\ bigrams' = IF lastOp'.result THEN bigrams \ {<<pair[1], pair[2]>>} ELSE bigrams
        /\ UNCHANGED <<unigrams, gcBuf, searchVars, decoderVars, isUpdatable, sizeVars>>

OpenedNext == AddUnigramWordIfUpdatable \/ AddBigramWordsIfUpdatable \/ RemoveBigramWordsIfUpdatable

OpenedSpec == OpenedInit /\ [][OpenedNext]_vars

\* ------------------------------------------------------------ a search
\* The dictionaries a search reads: words and then bigrams added to an
\* empty dictionary.
SearchWordList == << <<1>>, <<1, 2>>, <<1, 2, 3>> >>

SearchBigramLists ==
    { <<>>,
      << <<<<1, 2>>, <<1, 2, 3>>, 1>> >>,
      << <<<<1, 2>>, <<1, 2>>, 1>>, <<<<1, 2>>, <<1, 2>>, 2>> >>,
      << <<<<1, 2>>, <<1>>, 2>>, <<<<1>>, <<1, 2>>, 1>> >> }

RECURSIVE DictionaryWithBigrams(_, _, _)
DictionaryWithBigrams(b, bigramList, n) == IF n = 0 THEN b ELSE addBigramWords(DictionaryWithBigrams(b, bigramList, n - 1), bigramList[n][1], bigramList[n][2], bigramList[n][3]).buf

SearchInit ==
    \E bigramList \in SearchBigramLists :
    \E words \in {DictionaryOf(SearchWordList, Len(SearchWordList))} :
        /\ buf = DictionaryWithBigrams(words, bigramList, Len(bigramList))
        /\ prevBuf = buf
        /\ lastOp = NoOp
        /\ lastLog = <<>>
        /\ unigrams = {<<SearchWordList[i], InitialProbability>> : i \in 1..Len(SearchWordList)}
        /\ bigrams = {<<bigramList[i][1], bigramList[i][2]>> : i \in 1..Len(bigramList)}
        /\ failed = FALSE
        /\ nOps = 0
        /\ gcBuf = <<>>
        /\ lastFlush = NoFlush
        /\ mBigramMaps = <<>>
        /\ lastQuery = NoQuery
        /\ answer = NoAnswer
        /\ sIncrementalDecoderFactoryMethod = NoFactoryMethod
        /\ mIncrementalDecoderInterface = FALSE
        /\ isUpdatable = TRUE
        /\ mExtendedRegionSize = ExtendedRegionSizeOfFlushed(buf)
        /\ mOriginalBufferSize = Len(buf)

\* The terminal positions a search asks about.
WordPositions(b) == {getTerminalNodePositionOfWord(b, w) : w \in Words} \ {NOT_A_VALID_WORD_POS}

\* A query of the search returns: the maps now cached and the answer.
Answers(r, wordPosition, nextWordPosition, unigramProbability) ==
    /\ mBigramMaps' = r.mBigramMaps
    /\ lastQuery' = [asked |-> TRUE, wordPosition |-> wordPosition, nextWordPosition |-> nextWordPosition, unigramProbability |-> unigramProbability, probability |-> r.probability]

\* MultiBigramMap::getBigramProbability called by the search.
GetBigramProbability ==
    \E wordPosition \in WordPositions(buf), nextWordPosition \in WordPositions(buf), unigramProbability \in Probabilities :
        /\ Answers(getBigramProbability(mBigramMaps, buf, wordPosition, nextWordPosition, unigramProbability), wordPosition, nextWordPosition, unigramProbability)
        /\ UNCHANGED <<dictVars, answer, decoderVars, isUpdatable, sizeVars>>

\* MultiBigramMap::clear
ClearBigramMaps ==
    /\ mBigramMaps' = clear(mBigramMaps)
    /\ lastQuery' = NoQuery
    /\ UNCHANGED <<dictVars, answer, decoderVars, isUpdatable, sizeVars>>

SearchNext == GetBigramProbability \/ ClearBigramMaps

SearchSpec == SearchInit /\ [][SearchNext]_vars

\* ------------------------------- a search that asks about any position
\* The next word positions asked about: the terminal positions, and the
\* positions that set the same bit of the bloom filter as one of them.
NextWordPositions(b) == WordPositions(b) \cup {p + BIGRAM_FILTER_MODULO : p \in WordPositions(b)}

\* MultiBigramMap::getBigramProbability called with any next word position.
GetBigramProbabilityOfAnyPosition ==
    \E wordPosition \in WordPositions(buf), nextWordPosition \in NextWordPositions(buf), unigramProbability \in Probabilities :
        /\ Answers(getBigramProbability(mBigramMaps, buf, wordPosition, nextWordPosition, unigramProbability), wordPosition, nextWordPosition, unigramProbability)
        /\ UNCHANGED <<dictVars, answer, decoderVars, isUpdatable, sizeVars>>

BloomNext == GetBigramProbabilityOfAnyPosition \/ ClearBigramMaps

BloomSpec == SearchInit /\ [][BloomNext]_vars

\* ------------------------------------------------------- the DicNodes
MAX_VALUE_FOR_WEIGHTING == 10000000

\* A float that is the quotient of two integers, kept as the two of them.
Quotient(numerator, denominator) == <<numerator, denominator>>

\* DicNode::isLeavingNode: every code point of the PtNode has been taken.
isLeavingNode(dicNode) == dicNode.depth = dicNode.leavingDepth

\* DicNode::isTotalInputSizeExceedingLimit: the code points of the previous
\* words and of this word leave less than a margin of three below
\* MAX_WORD_LENGTH.
isTotalInputSizeExceedingLimit(dicNode) == dicNode.prevWordsLength + dicNode.depth > MAX_WORD_LENGTH - 3

\* DicNode::initAsRoot, with what the DicNode carries of the previous words.
RootDicNode(rootPos, prevWordTerminalPtNodePos, hasMultipleWords, isValidMultipleWordSuggestion, prevWordsLength) ==
    [ptNodePos |-> rootPos, childrenPos |-> rootPos, probability |-> NOT_A_PROBABILITY, isTerminal |-> FALSE, hasChildren |-> TRUE,
     isBlacklistedOrNotAWord |-> FALSE, depth |-> 0, leavingDepth |-> 0, nodeCodePoint |-> NOT_A_CODE_POINT, codePoints |-> <<>>,
     prevWordTerminalPtNodePos |-> prevWordTerminalPtNodePos, hasMultipleWords |-> hasMultipleWords,
     isValidMultipleWordSuggestion |-> isValidMultipleWordSuggestion, prevWordsLength |-> prevWordsLength]

\* DicNodeVector::pushPassingChild: the DicNode of the same PtNode with one
\* more of its code points taken.
pushPassingChild(childDicNodes, dicNode) ==
    Append(childDicNodes, [dicNode EXCEPT !.depth = dicNode.depth + 1, !.nodeCodePoint = dicNode.codePoints[Len(dicNode.codePoints) - (dicNode.leavingDepth - dicNode.depth) + 1]])

\* DicNodeVector::pushLeavingChild: the DicNode of a child PtNode with the
\* first of its code points taken.
pushLeavingChild(childDicNodes, dicNode, pos, childrenPos, probability, terminal, children, isBlacklistedOrNotAWord, mergedNodeCodePoints) ==
    Append(childDicNodes, [dicNode EXCEPT !.ptNodePos = pos, !.childrenPos = childrenPos, !.probability = probability, !.isTerminal = terminal,
                                          !.hasChildren = children, !.isBlacklistedOrNotAWord = isBlacklistedOrNotAWord,
                                          !.depth = dicNode.depth + 1, !.leavingDepth = dicNode.depth + Len(mergedNodeCodePoints),
                                          !.nodeCodePoint = mergedNodeCodePoints[1], !.codePoints = mergedNodeCodePoints])

\* DynamicPatriciaTriePolicy::createAndGetAllChildNodes, the loop: a leaving
\* child is pushed for each PtNode read from the i-th on.
RECURSIVE PushLeavingChildren(_, _, _, _)
PushLeavingChildren(childDicNodes, dicNode, nodes, i) ==
    IF i > Len(nodes) THEN childDicNodes
    ELSE PushLeavingChildren(pushLeavingChild(childDicNodes, dicNode, nodes[i].headPos, nodes[i].childrenPos, nodes[i].probability,
                                              isTerminal(nodes[i]) /\ ~isDeleted(nodes[i].flags), hasChildren(nodes[i]),
                                              HasBit(nodes[i].flags, FLAG_IS_BLACKLISTED) \/ HasBit(nodes[i].flags, FLAG_IS_NOT_A_WORD), nodes[i].codePoints),
                             dicNode, nodes, i + 1)

\* DynamicPatriciaTriePolicy::createAndGetAllChildNodes called with a DicNode
\* and the vector the children are pushed to.
createAndGetAllChildDicNodes(b, dicNode, childDicNodes) ==
    IF ~dicNode.hasChildren THEN childDicNodes
    ELSE PushLeavingChildren(childDicNodes, dicNode, ReadSiblings(b, initWithNodeArrayPos(b, dicNode.childrenPos), MaxWalk).nodes, 1)

\* A faulty getAllChildDicNodes, which reads the children from the trie
\* whether the DicNode is a leaving node or not.
getAllChildDicNodesOfThePtNode(b, dicNode, childDicNodes) ==
    IF isTotalInputSizeExceedingLimit(dicNode) THEN childDicNodes
    ELSE createAndGetAllChildDicNodes(b, dicNode, childDicNodes)

\* DicNodeUtils::getAllChildDicNodes: the vector after the call.
getAllChildDicNodes(b, dicNode, childDicNodes) ==
    IF isTotalInputSizeExceedingLimit(dicNode) THEN childDicNodes
    ELSE IF ~isLeavingNode(dicNode) THEN pushPassingChild(childDicNodes, dicNode)
    ELSE createAndGetAllChildDicNodes(b, dicNode, childDicNodes)

\* A call that left the MultiBigramMap alone.
WithoutBigramMap(maps, probability) == [mBigramMaps |-> maps, probability |-> probability, consulted |-> <<>>]

\* A faulty getBigramNodeProbability, which asks the MultiBigramMap about
\* whatever positions the DicNode has.
getBigramNodeProbabilityOfAnyPositions(maps, b, dicNode, multiBigramMap) ==
    IF multiBigramMap
    THEN Let(getBigramProbability(maps, b, dicNode.prevWordTerminalPtNodePos, dicNode.ptNodePos, dicNode.probability), LAMBDA r :
             [mBigramMaps |-> r.mBigramMaps, probability |-> r.probability, consulted |-> << <<dicNode.prevWordTerminalPtNodePos, dicNode.ptNodePos, dicNode.probability>> >>])
    ELSE WithoutBigramMap(maps, getProbability(dicNode.probability, NOT_A_PROBABILITY))

\* DicNodeUtils::getBigramNodeProbability: the probability returned, the
\* MultiBigramMap after the call and the calls it received; multiBigramMap
\* tells whether the caller supplied the map.
getBigramNodeProbability(maps, b, dicNode, multiBigramMap) ==
    IF dicNode.ptNodePos = NOT_A_DICT_POS \/ dicNode.prevWordTerminalPtNodePos = NOT_A_DICT_POS
    THEN WithoutBigramMap(maps, getProbability(dicNode.probability, NOT_A_PROBABILITY))
    ELSE IF multiBigramMap
    THEN Let(getBigramProbability(maps, b, dicNode.prevWordTerminalPtNodePos, dicNode.ptNodePos, dicNode.probability), LAMBDA r :
             [mBigramMaps |-> r.mBigramMaps, probability |-> r.probability, consulted |-> << <<dicNode.prevWordTerminalPtNodePos, dicNode.ptNodePos, dicNode.probability>> >>])
    ELSE WithoutBigramMap(maps, getProbability(dicNode.probability, NOT_A_PROBABILITY))

\* A faulty getBigramNodeImprobability, which computes the cost of every
\* DicNode from its probability.
getBigramNodeImprobabilityOfAnySuggestion(maps, b, dicNode, multiBigramMap) ==
    Let(getBigramNodeProbability(maps, b, dicNode, multiBigramMap), LAMBDA r :
        [mBigramMaps |-> r.mBigramMaps, cost |-> Quotient(MAX_PROBABILITY - r.probability, MAX_PROBABILITY), consulted |-> r.consulted])

\* DicNodeUtils::getBigramNodeImprobability: the cost returned, the
\* MultiBigramMap after the call and the calls it received.
getBigramNodeImprobability(maps, b, dicNode, multiBigramMap) ==
    IF dicNode.hasMultipleWords /\ ~dicNode.isValidMultipleWordSuggestion
    THEN [mBigramMaps |-> maps, cost |-> Quotient(MAX_VALUE_FOR_WEIGHTING, 1), consulted |-> <<>>]
    ELSE Let(getBigramNodeProbability(maps, b, dicNode, multiBigramMap), LAMBDA r :
             [mBigramMaps |-> r.mBigramMaps, cost |-> Quotient(MAX_PROBABILITY - r.probability, MAX_PROBABILITY), consulted |-> r.consulted])

\* The dictionary the DicNodes are of: "ab" and under it "c", with "abc" as
\* a next word of "ab"; the PtNode of "ab" has two code points.
DicNodeWordList == << <<1, 2>>, <<1, 2, 3>> >>
DicNodeBigramList == << <<<<1, 2>>, <<1, 2, 3>>, 1>> >>

\* What a root DicNode carries of the previous words: none, a previous word
\* that makes a valid suggestion, one that does not, and previous words one
\* code point short of the input size limit.
PrevWordStates == { <<FALSE, FALSE, 0>>, <<TRUE, TRUE, 3>>, <<TRUE, FALSE, 3>>, <<TRUE, TRUE, MAX_WORD_LENGTH - 4>> }

RootDicNodes(b) ==
    {RootDicNode(getRootPosition, prevWordTerminalPtNodePos, st[1], st[2], st[3]) :
        prevWordTerminalPtNodePos \in {NOT_A_DICT_POS} \cup WordPositions(b), st \in PrevWordStates}

\* The DicNodes that n rounds of expansion make of the DicNodes given.
RECURSIVE Expanded(_, _, _)
Expanded(b, dicNodes, n) ==
    IF n = 0 THEN dicNodes
    ELSE dicNodes \cup Expanded(b, UNION {Let(getAllChildDicNodes(b, d, <<>>), LAMBDA children : {children[i] : i \in 1..Len(children)}) : d \in dicNodes}, n - 1)

\* The DicNodes of a search: the roots, what the expansion makes of them,
\* and a root that is at no position of the dictionary.
DicNodes(b) == Expanded(b, RootDicNodes(b), 3) \cup {RootDicNode(NOT_A_DICT_POS, p, FALSE, FALSE, 0) : p \in WordPositions(b)}

DicNodeInit ==
    \E words \in {DictionaryOf(DicNodeWordList, Len(DicNodeWordList))} :
        /\ buf = DictionaryWithBigrams(words, DicNodeBigramList, Len(DicNodeBigramList))
        /\ prevBuf = buf
        /\ lastOp = NoOp
        /\ lastLog = <<>>
        /\ unigrams = {<<DicNodeWordList[i], InitialProbability>> : i \in 1..Len(DicNodeWordList)}
        /\ bigrams = {<<DicNodeBigramList[i][1], DicNodeBigramList[i][2]>> : i \in 1..Len(DicNodeBigramList)}
        /\ failed = FALSE
        /\ nOps = 0
        /\ gcBuf = <<>>
        /\ lastFlush = NoFlush
        /\ mBigramMaps = <<>>
        /\ lastQuery = NoQuery
        /\ answer = NoAnswer
        /\ sIncrementalDecoderFactoryMethod = NoFactoryMethod
        /\ mIncrementalDecoderInterface = FALSE
        /\ isUpdatable = TRUE
        /\ mExtendedRegionSize = ExtendedRegionSizeOfFlushed(buf)
        /\ mOriginalBufferSize = Len(buf)

\* DicNodeUtils::getBigramNodeImprobability called by the search, with its
\* MultiBigramMap or without one; the answer keeps the DicNode, the cost,
\* the calls the MultiBigramMap received and the map before and after.
GetBigramNodeImprobability ==
    \E dicNode \in DicNodes(buf), multiBigramMap \in BOOLEAN :
        Let(getBigramNodeImprobability(mBigramMaps, buf, dicNode, multiBigramMap), LAMBDA r :
            /\ mBigramMaps' = r.mBigramMaps
            /\ answer' = <<"getBigramNodeImprobability", dicNode, multiBigramMap, r.cost, r.consulted, mBigramMaps, r.mBigramMaps>>
            /\ UNCHANGED <<dictVars, lastQuery, decoderVars, isUpdatable, sizeVars>>)

\* DicNodeUtils::getBigramNodeProbability called by the search.
GetBigramNodeProbability ==
    \E dicNode \in DicNodes(buf), multiBigramMap \in BOOLEAN :
        Let(getBigramNodeProbability(mBigramMaps, buf, dicNode, multiBigramMap), LAMBDA r :
            /\ mBigramMaps' = r.mBigramMaps
            /\ answer' = <<"getBigramNodeProbability", dicNode, multiBigramMap, r.probability, r.consulted, mBigramMaps, r.mBigramMaps>>
            /\ UNCHANGED <<dictVars, lastQuery, decoderVars, isUpdatable, sizeVars>>)

\* DicNodeUtils::getAllChildDicNodes called by the search, with a vector
\* that is empty or holds a root.
GetAllChildDicNodes ==
    \E dicNode \in DicNodes(buf), childDicNodes \in {<<>>, <<RootDicNode(getRootPosition, NOT_A_DICT_POS, FALSE, FALSE, 0)>>} :
        /\ answer' = <<"getAllChildDicNodes", dicNode, childDicNodes, getAllChildDicNodes(buf, dicNode, childDicNodes)>>
        /\ UNCHANGED <<dictVars, mBigramMaps, lastQuery, decoderVars, isUpdatable, sizeVars>>

DicNodeNext == GetBigramNodeImprobability \/ GetBigramNodeProbability \/ GetAllChildDicNodes \/ ClearBigramMaps

DicNodeSpec == DicNodeInit /\ [][DicNodeNext]_vars

\* ------------------------------------------ probabilities of PtNodes
\* The dictionary whose PtNodes are asked about: "ab", "ac" and "abc", the
\* PtNode of "a" being not terminal, with "abc" as a next word of "ab".
FlaggedWordList == << <<1, 2>>, <<1, 3>>, <<1, 2, 3>> >>

\* The buffer b with the flags of the PtNode of word changed by Flags.
WithFlagsOf(b, word, Flags(_)) == Let(getTerminalNodePositionOfWord(b, word), LAMBDA pos : [b EXCEPT ![pos] = Flags(b[pos])])

\* The dictionaries opened: the one built from the word list, and the ones
\* in which the file marks a word as blacklisted, as not a word, or as
\* deleted.
FlaggedDictionaries ==
    UNION {UNION {
        {b} \cup UNION {{WithFlagsOf(b, word, LAMBDA flags : flags + FLAG_IS_BLACKLISTED),
                         WithFlagsOf(b, word, LAMBDA flags : flags + FLAG_IS_NOT_A_WORD),
                         WithFlagsOf(b, word, LAMBDA flags : updateAndGetFlags(flags, FALSE, TRUE))} : word \in {<<1, 2>>, <<1, 3>>}}
        : b \in {DictionaryWithBigrams(words, DicNodeBigramList, Len(DicNodeBigramList))}}
        : words \in {DictionaryOf(FlaggedWordList, Len(FlaggedWordList))}}

ProbabilityInit ==
    \E b \in FlaggedDictionaries :
        /\ buf = b
        /\ prevBuf = buf
        /\ lastOp = NoOp
        /\ lastLog = <<>>
        /\ unigrams = {<<FlaggedWordList[i], InitialProbability>> : i \in 1..Len(FlaggedWordList)}
        /\ bigrams = {<<DicNodeBigramList[i][1], DicNodeBigramList[i][2]>> : i \in 1..Len(DicNodeBigramList)}
        /\ failed = FALSE
        /\ nOps = 0
        /\ gcBuf = <<>>
        /\ lastFlush = NoFlush
        /\ mBigramMaps = <<>>
        /\ lastQuery = NoQuery
        /\ answer = NoAnswer
        /\ sIncrementalDecoderFactoryMethod = NoFactoryMethod
        /\ mIncrementalDecoderInterface = FALSE
        /\ isUpdatable = TRUE
        /\ mExtendedRegionSize = ExtendedRegionSizeOfFlushed(buf)
        /\ mOriginalBufferSize = Len(buf)

\* The probabilities getProbability is called with: none, the ends of the
\* range and values around the backoff step for the unigram, none and the
\* ends of the range for the bigram.
UnigramProbabilityInputs == {NOT_A_PROBABILITY, 0, 7, 8, 9, InitialProbability, MAX_PROBABILITY - 1, MAX_PROBABILITY}
BigramProbabilityInputs == {NOT_A_PROBABILITY, 0, 1, MASK_BIGRAM_PROBABILITY}

\* DynamicPatriciaTriePolicy::getProbability called.
GetProbability ==
    \E unigramProbability \in UnigramProbabilityInputs, bigramProbability \in BigramProbabilityInputs :
        /\ answer' = <<"getProbability", unigramProbability, bigramProbability, getProbability(unigramProbability, bigramProbability)>>
        /\ UNCHANGED <<dictVars, mBigramMaps, lastQuery, decoderVars, isUpdatable, sizeVars>>

\* DynamicPatriciaTriePolicy::getUnigramProbabilityOfPtNode called for the
\* position a lookup gave, a PtNode that is not terminal included, or for
\* NOT_A_VALID_WORD_POS.
GetUnigramProbabilityOfPtNode ==
    \E nodePos \in WordPositions(buf) \cup {NOT_A_VALID_WORD_POS} :
        /\ answer' = <<"getUnigramProbabilityOfPtNode", nodePos, getUnigramProbabilityOfPtNode(buf, nodePos)>>
        /\ UNCHANGED <<dictVars, mBigramMaps, lastQuery, decoderVars, isUpdatable, sizeVars>>

ProbabilityNext == GetProbability \/ GetUnigramProbabilityOfPtNode

ProbabilitySpec == ProbabilityInit /\ [][ProbabilityNext]_vars

\* -------------------------------------------- searches and updates
\* Searches on a dictionary that bigrams are added to and removed from
\* in between.
MaxUpdates == 1

UpdateBigrams == nOps < MaxUpdates /\ (AddBigramWords \/ RemoveBigramWords)

SessionNext == GetBigramProbability \/ ClearBigramMaps \/ UpdateBigrams

SessionSpec == SearchInit /\ [][SessionNext]_vars

\* ---------------------------------------------------- the result list
\* The words and probabilities addWordBigram is called with; the longest
\* word getCodePointsAndProbabilityAndReturnCodePointCount can return for
\* maxCodePointCount = MAX_WORD_LENGTH is among them.
LongestWord == [i \in 1..MAX_WORD_LENGTH |-> 1]

RankWords == { <<1>>, <<1, 2>>, LongestWord }

RankProbabilities == { 0, 1, 2 }

\* answer holds the result list before and after the last call.
RankInit ==
    /\ buf = EmptyDictionary
    /\ prevBuf = buf
    /\ lastOp = NoOp
    /\ lastLog = <<>>
    /\ unigrams = {}
    /\ bigrams = {}
    /\ failed = FALSE
    /\ nOps = 0
    /\ gcBuf = <<>>
    /\ lastFlush = NoFlush
    /\ mBigramMaps = <<>>
    /\ lastQuery = NoQuery
    /\ answer = <<NoPredictions, NoPredictions>>
    /\ sIncrementalDecoderFactoryMethod = NoFactoryMethod
    /\ mIncrementalDecoderInterface = FALSE
    /\ isUpdatable = TRUE
    /\ mExtendedRegionSize = ExtendedRegionSizeOfFlushed(buf)
    /\ mOriginalBufferSize = Len(buf)

\* BigramDictionary::addWordBigram called on the result list.
AddWordBigram ==
    \E word \in RankWords, probability \in RankProbabilities :
        /\ answer' = <<answer[2], addWordBigram(answer[2], word, probability)>>
        /\ lastOp' = [kind |-> "addWordBigram", word0 |-> word, word1 |-> word, probability |-> probability, result |-> addWordBigramWritesInsideTheArrays(word)]
        /\ UNCHANGED <<buf, prevBuf, lastLog, unigrams, bigrams, failed, nOps, gcBuf, lastFlush, mBigramMaps, lastQuery, decoderVars, isUpdatable, sizeVars>>

RankNext == AddWordBigram

RankSpec == RankInit /\ [][RankNext]_vars

\* ------------------------------------------------------- predictions
\* The dictionaries predictions are asked of: the previous word ab has no,
\* one or three successors, three being more than MAX_RESULTS.
PredictionBigramLists ==
    { <<>>,
      << <<<<1, 2>>, <<1>>, 1>> >>,
      << <<<<1, 2>>, <<1>>, 1>>, <<<<1, 2>>, <<1, 2>>, 2>>, <<<<1, 2>>, <<1, 2, 3>>, 1>> >>,
      << <<<<1, 2>>, <<1, 2, 3>>, 1>>, <<<<1, 2>>, <<1>>, 2>>, <<<<1, 2>>, <<1, 2>>, 2>> >> }

PredictionInit ==
    \E bigramList \in PredictionBigramLists :
    \E words \in {DictionaryOf(SearchWordList, Len(SearchWordList))} :
        /\ buf = DictionaryWithBigrams(words, bigramList, Len(bigramList))
        /\ prevBuf = buf
        /\ lastOp = NoOp
        /\ lastLog = <<>>
        /\ unigrams = {<<SearchWordList[i], InitialProbability>> : i \in 1..Len(SearchWordList)}
        /\ bigrams = {<<bigramList[i][1], bigramList[i][2]>> : i \in 1..Len(bigramList)}
        /\ failed = FALSE
        /\ nOps = 0
        /\ gcBuf = <<>>
        /\ lastFlush = NoFlush
        /\ mBigramMaps = <<>>
        /\ lastQuery = NoQuery
        /\ answer = NoAnswer
        /\ sIncrementalDecoderFactoryMethod = NoFactoryMethod
        /\ mIncrementalDecoderInterface = FALSE
        /\ isUpdatable = TRUE
        /\ mExtendedRegionSize = ExtendedRegionSizeOfFlushed(buf)
        /\ mOriginalBufferSize = Len(buf)

\* What the user has typed of the next word: nothing (prediction), or a
\* first letter.
InputCodePoints == { <<>>, <<1>>, <<2>> }

\* What the first cell of the local array bigramBuffer may hold before it is
\* written: any value, of which the model takes each code point of the
\* words and of the inputs, and 0 for every other one.
UninitializedCodePoints == { 0, 1, 2, 3 }

\* BigramDictionary::getPredictions: answer holds what it returns, and the
\* previous word and the input it was called with.
GetPredictions ==
    \E prevWord \in Words, inputCodePoints \in InputCodePoints, uninitialized \in UninitializedCodePoints :
        /\ answer' = <<getPredictions(buf, prevWord, inputCodePoints, uninitialized), prevWord, inputCodePoints, uninitialized>>
        /\ UNCHANGED <<dictVars, mBigramMaps, lastQuery, decoderVars, isUpdatable, sizeVars>>

\* TypingDecoderWrapper::setIncrementalDecoderFactoryMethod
SetIncrementalDecoderFactoryMethod ==
    \E factoryMethod \in {NoFactoryMethod} \cup FactoryMethods :
        /\ sIncrementalDecoderFactoryMethod' = factoryMethod
        /\ UNCHANGED <<dictVars, searchVars, mIncrementalDecoderInterface, isUpdatable, sizeVars>>

\* The constructor of TypingDecoderWrapper.
TypingDecoderWrapper ==
    /\ mIncrementalDecoderInterface' = getIncrementalDecoderInstance(sIncrementalDecoderFactoryMethod)
    /\ lastOp' = NoOp
    /\ UNCHANGED <<buf, prevBuf, lastLog, unigrams, bigrams, failed, nOps, gcBuf, lastFlush, searchVars, sIncrementalDecoderFactoryMethod, isUpdatable, sizeVars>>

\* TypingDecoderWrapper::getSuggestions, count being what a decoder returns.
GetSuggestions ==
    \E count \in 0..MAX_RESULTS :
        /\ lastOp' = [kind |-> "getSuggestions", word0 |-> <<>>, word1 |-> <<>>, probability |-> NOT_A_PROBABILITY, result |-> mIncrementalDecoderInterface,
                      count |-> getSuggestions(mIncrementalDecoderInterface, count), decoderCount |-> count]
        /\ UNCHANGED <<buf, prevBuf, lastLog, unigrams, bigrams, failed, nOps, gcBuf, lastFlush, searchVars, decoderVars, isUpdatable, sizeVars>>

PredictionNext == GetPredictions \/ SetIncrementalDecoderFactoryMethod \/ TypingDecoderWrapper \/ GetSuggestions

PredictionSpec == PredictionInit /\ [][PredictionNext]_vars

\* ------------------------------------ predictions for letters typed
\* The dictionary of a, ab, Ab and b (code points 97, 98 and 65), in which
\* ab has the successors of one of the lists, one of them removed again or
\* not.
CasedWordList == << <<97>>, <<97, 98>>, <<65, 98>>, <<98>> >>

CasedBigramLists ==
    { <<>>,
      << <<<<97, 98>>, <<65, 98>>, 1>> >>,
      << <<<<97, 98>>, <<98>>, 2>>, <<<<97, 98>>, <<97>>, 1>> >>,
      << <<<<97, 98>>, <<97>>, 1>>, <<<<97, 98>>, <<65, 98>>, 2>>, <<<<97, 98>>, <<98>>, 1>> >> }

\* The words removed as successors of ab before the predictions are asked
\* for.
CasedRemovals == { <<>>, << <<97>> >>, << <<98>> >> }

RECURSIVE DictionaryWithoutBigrams(_, _, _, _)
DictionaryWithoutBigrams(b, word0, removals, n) == IF n = 0 THEN b ELSE removeBigramWords(DictionaryWithoutBigrams(b, word0, removals, n - 1), word0, removals[n]).buf

FirstCharacterInit ==
    \E bigramList \in CasedBigramLists, removals \in CasedRemovals :
    \E words \in {DictionaryOf(CasedWordList, Len(CasedWordList))} :
    \E successors \in {DictionaryWithBigrams(words, bigramList, Len(bigramList))} :
        /\ buf = DictionaryWithoutBigrams(successors, <<97, 98>>, removals, Len(removals))
        /\ prevBuf = buf
        /\ lastOp = NoOp
        /\ lastLog = <<>>
        /\ unigrams = {<<CasedWordList[i], InitialProbability>> : i \in 1..Len(CasedWordList)}
        /\ bigrams = {<<bigramList[i][1], bigramList[i][2]>> : i \in 1..Len(bigramList)} \ {<<<<97, 98>>, removals[i]>> : i \in 1..Len(removals)}
        /\ failed = FALSE
        /\ nOps = 0
        /\ gcBuf = <<>>
        /\ lastFlush = NoFlush
        /\ mBigramMaps = <<>>
        /\ lastQuery = NoQuery
        /\ answer = NoAnswer
        /\ sIncrementalDecoderFactoryMethod = NoFactoryMethod
        /\ mIncrementalDecoderInterface = FALSE
        /\ isUpdatable = TRUE
        /\ mExtendedRegionSize = ExtendedRegionSizeOfFlushed(buf)
        /\ mOriginalBufferSize = Len(buf)

\* The previous words: ab, AB and Ab, which only the lower-case search finds
\* a bigram list for, b, which has none, c, which is not in the dictionary,
\* and no word.
CasedPrevWords == { <<97, 98>>, <<65, 66>>, <<65, 98>>, <<98>>, <<99>>, <<>> }

\* What the user has typed of the next word.
CasedInputCodePoints == { <<>>, <<97>>, <<65>>, <<98>>, <<99>> }

\* What the first cell of bigramBuffer may hold before it is written: any
\* value, of which the model takes the letters a, b and c in both cases,
\* one for every input that checkFirstCharacter can find equal to it, and 0
\* for every other one.
CasedUninitializedCodePoints == { 0, 65, 66, 67, 97, 98, 99 }

\* BigramDictionary::getPredictions called for the letters typed.
GetPredictionsForInput ==
    \E prevWord \in CasedPrevWords, inputCodePoints \in CasedInputCodePoints, uninitialized \in CasedUninitializedCodePoints :
        /\ answer' = <<getPredictions(buf, prevWord, inputCodePoints, uninitialized), prevWord, inputCodePoints, uninitialized>>
        /\ UNCHANGED <<dictVars, mBigramMaps, lastQuery, decoderVars, isUpdatable, sizeVars>>

FirstCharacterSpec == FirstCharacterInit /\ [][GetPredictionsForInput]_vars

\* ------------------------------------------------ two words appended
\* DicNodeUtils::appendTwoWords, one of its loops: the number of code points
\* of src before its first 0 and before length, counted from the i-th cell
\* (from 0) on.
RECURSIVE ActualLength(_, _, _, _)
ActualLength(src, length, i, actualLength) ==
    IF i >= length THEN actualLength
    ELSE IF src[i + 1] = 0 THEN actualLength
    ELSE ActualLength(src, length, i + 1, i + 1)

\* memmove(&dest[at], src, count * sizeof(dest[0]))
memmove(dest, at, src, count) == [i \in 1..Len(dest) |-> IF i > at /\ i <= at + count THEN src[i - at] ELSE dest[i]]

\* A faulty appendTwoWords, which limits the second word to MAX_WORD_LENGTH
\* and not to the room the first one leaves.
appendTwoWordsWithoutRoomLeft(src0, length0, src1, length1, dest) ==
    Let(Min(ActualLength(src0, length0, 0, 0), MAX_WORD_LENGTH), LAMBDA actualLength0 :
    Let(memmove(dest, 0, src0, actualLength0), LAMBDA dest0 :
        IF src1.isNull \/ length1 = 0 THEN [result |-> actualLength0, dest |-> dest0]
        ELSE Let(Min(ActualLength(src1.codePoints, length1, 0, 0), MAX_WORD_LENGTH), LAMBDA actualLength1 :
                 [result |-> actualLength0 + actualLength1, dest |-> memmove(dest0, actualLength0, src1.codePoints, actualLength1)])))

\* DicNodeUtils::appendTwoWords: what it returns and what it leaves in dest.
\* src1 may be a null pointer.
appendTwoWords(src0, length0, src1, length1, dest) ==
    Let(Min(ActualLength(src0, length0, 0, 0), MAX_WORD_LENGTH), LAMBDA actualLength0 :
    Let(memmove(dest, 0, src0, actualLength0), LAMBDA dest0 :
        IF src1.isNull \/ length1 = 0 THEN [result |-> actualLength0, dest |-> dest0]
        ELSE Let(Min(ActualLength(src1.codePoints, length1, 0, 0), MAX_WORD_LENGTH - actualLength0), LAMBDA actualLength1 :
                 [result |-> actualLength0 + actualLength1, dest |-> memmove(dest0, actualLength0, src1.codePoints, actualLength1)])))

\* The words appended: arrays with and without a 0 code point in them, of
\* less than, exactly and more than MAX_WORD_LENGTH code points; the second
\* one may be a null pointer.
CodePointsOf(n, c) == [i \in 1..n |-> c]

FirstWords == { <<>>, <<1>>, <<1, 1, 0, 1>>, CodePointsOf(MAX_WORD_LENGTH - 1, 1), CodePointsOf(MAX_WORD_LENGTH, 1), CodePointsOf(MAX_WORD_LENGTH + 1, 1) }

NullWord == [isNull |-> TRUE, codePoints |-> <<>>]

SecondWords == {NullWord} \cup {[isNull |-> FALSE, codePoints |-> w] : w \in { <<>>, <<2>>, <<2, 2>>, <<2, 0, 2>>, CodePointsOf(MAX_WORD_LENGTH, 2) }}

\* The lengths an array is passed with: none of its cells, one less than
\* all, or all.
LengthsOf(src) == {0, Max(Len(src) - 1, 0), Len(src)}

\* dest before the call: MAX_WORD_LENGTH cells that hold another value.
EmptyDest == CodePointsOf(MAX_WORD_LENGTH, 9)

\* DicNodeUtils::appendTwoWords called: answer holds the arguments and what
\* the call returns and leaves in dest.
AppendTwoWords ==
    \E src0 \in FirstWords, src1 \in SecondWords :
        \E length0 \in LengthsOf(src0), length1 \in LengthsOf(src1.codePoints) :
            /\ answer' = <<"appendTwoWords", src0, length0, src1, length1, appendTwoWords(src0, length0, src1, length1, EmptyDest)>>
            /\ UNCHANGED <<dictVars, mBigramMaps, lastQuery, decoderVars, isUpdatable, sizeVars>>

AppendSpec == Init /\ [][AppendTwoWords]_vars

\* ------------------------------------------- code points of a position
\* The positions and limits
\* getCodePointsAndProbabilityAndReturnCodePointCount is called with: every
\* position of the buffer, PtNode or not, and the two not-a-position values.
NodePositions(b) == (0..Len(b)) \cup {NOT_A_VALID_WORD_POS, NOT_A_DICT_POS}

MaxCodePointCounts == { 1, 2, 3 }

\* answer holds the result, the position, the limit, the code points the
\* call has stored in reverseCodePoints, and the buffer that was read.
GetCodePointsAndProbability ==
    \E nodePos \in NodePositions(buf), maxCodePointCount \in MaxCodePointCounts :
        /\ answer' = <<getCodePointsAndProbability(buf, nodePos, maxCodePointCount), nodePos, maxCodePointCount,
                       reverseCodePointsOf(buf, nodePos, maxCodePointCount), buf>>
        /\ UNCHANGED <<dictVars, mBigramMaps, lastQuery, decoderVars, isUpdatable, sizeVars>>

\* The dictionary is updated before it is read.
UpdateDictionary == nOps < MaxUpdates /\ (AddUnigramWord \/ AddBigramWords \/ RemoveBigramWords)

CodePointsNext == GetCodePointsAndProbability \/ UpdateDictionary

CodePointsSpec == Init /\ [][CodePointsNext]_vars

\* ------------------------------------- the GC of a decaying dictionary
\* The terminals ForgettingCurveUtils::needsToKeep may tell the GC not to
\* keep, one at a time: the words in use that have no child and that no
\* bigram entry refers to.
DiscardableTerminals(b) ==
    Let(WordPositions(b), LAMBDA positions :
    Let(UNION {Let(BigramsOf(b, getBigramsPositionOfNode(b, q)), LAMBDA entries : {entries[i].bigramPos : i \in 1..Len(entries)}) : q \in positions}, LAMBDA targets :
        {p \in positions \ targets : Let(fetchNodeInfoFromBuffer(b, p), LAMBDA n : isTerminal(n) /\ ~isDeleted(n.flags) /\ ~hasChildren(n))}))

\* The entry count tables truncateEntries may leave: its code is not part
\* of the sources, so any counts up to those it is given.
TruncatedEntryCountTables(entryCountTable) == {<<unigramCount, bigramCount>> : unigramCount \in 0..entryCountTable[1], bigramCount \in 0..entryCountTable[2]}

\* flushWithGC of a decaying dictionary: the forgetting curve and the
\* truncation keep every terminal, or all but one.
FlushDecayingDictWithGC ==
    \E discarded \in {{}} \cup {{p} : p \in DiscardableTerminals(buf)}, failing \in FailingSteps(TRUE), truncatedEntryCountTable \in TruncatedEntryCountTables(EntryCountTable) :
        /\ FlushReturns(writeToDictFileWithGC(buf, discarded, failing, TRUE, EntryCountTable, truncatedEntryCountTable), "flushWithGC", failing, TRUE)
        /\ UNCHANGED <<unigrams, bigrams, failed, searchVars, decoderVars, isUpdatable, sizeVars>>

DecayNext == FlushDecayingDictWithGC \/ UpdateDictionary

DecaySpec == Init /\ [][DecayNext]_vars

\* ------------------------------ unigrams of a trie three levels deep
\* Words in which "ab" is the common prefix of two words that part after it,
\* below the word "a": the PtNode of "b" is then not terminal and has a
\* parent.
DeepWords == { <<1>>, <<1, 2>>, <<1, 2, 3>>, <<1, 2, 1>> }
DeepWordLists == { << <<1>>, <<1, 2, 3>>, <<1, 2, 1>> >>, << <<1>>, <<1, 2, 3>> >>, << <<1, 2, 3>>, <<1, 2, 1>> >> }

\* A dictionary file of the words "a", "abc" and "aba" in which the PtNode
\* of "b", which is not terminal, has a shortcut list of one target: the
\* root PtNodeArray at 1 with the PtNode of "a" at 2, the PtNodeArray at 8
\* with the PtNode of "b" at 9 and its shortcut list at 13, and the
\* PtNodeArray at 16 with the PtNodes of "c" at 17 and of "a" at 22.
DeepDictionaryFileWithShortcuts == <<1, 208, 0, 1, InitialProbability, 2, 0, 1, 200, -7, 2, 4, 2, 7, 0, 2, 208, -8, 3, InitialProbability, 0, 208, -13, 1, InitialProbability, 0, 0>>

DeepDictionaries ==
    {FlushedDictionaryOf(wordList) : wordList \in DeepWordLists}
    \cup {[wordList |-> << <<1>>, <<1, 2, 3>>, <<1, 2, 1>> >>, buf |-> DeepDictionaryFileWithShortcuts, extendedRegionSize |-> 0]}

UnigramInit ==
    \E opened \in DeepDictionaries :
        /\ buf = opened.buf
        /\ prevBuf = buf
        /\ lastOp = NoOp
        /\ lastLog = <<>>
        /\ unigrams = {<<opened.wordList[i], InitialProbability>> : i \in 1..Len(opened.wordList)}
        /\ bigrams = {}
        /\ failed = FALSE
        /\ nOps = 0
        /\ gcBuf = <<>>
        /\ lastFlush = NoFlush
        /\ mBigramMaps = <<>>
        /\ lastQuery = NoQuery
        /\ answer = NoAnswer
        /\ sIncrementalDecoderFactoryMethod = NoFactoryMethod
        /\ mIncrementalDecoderInterface = FALSE
        /\ isUpdatable = TRUE
        /\ mExtendedRegionSize = opened.extendedRegionSize
        /\ mOriginalBufferSize = Len(buf)

AddUnigramWordOfDeepWords ==
    \E word \in DeepWords, probability \in Probabilities :
        /\ Returns(addUnigramWord(buf, word, probability), "addUnigramWord", word, <<>>, probability)
        /\ unigrams' = IF lastOp'.result THEN WithUnigram(unigrams, word, probability) ELSE unigrams
        /\ UNCHANGED <<bigrams, gcBuf, searchVars, decoderVars, isUpdatable, sizeVars>>

UnigramSpec == UnigramInit /\ [][AddUnigramWordOfDeepWords]_vars

\* ------------------------------------------------- the read-only queries
\* The queries as they run on the dictionary.  A const method of the policy
\* constructs its reading helper or its node reader on
\* &mBufferWithExtendableBuffer, and BigramDictionary and MultiBigramMap
\* reach the buffer through the policy and the bigrams iterator.  A query at
\* work is the buffer it holds and what it has read; when it returns, the
\* buffer it holds is the buffer of the dictionary.

\* A DynamicPatriciaTrieReadingHelper constructed on the buffer b, in the
\* reading state rs.
ReadingHelperOn(b, rs) == [buf |-> b, rs |-> rs]

\* A method that returns value and leaves the buffer b.
Returned(b, value) == [buf |-> b, value |-> value]

\* DynamicPatriciaTrieReadingHelper::readNextSiblingNode, readChildNode and
\* readParentNode called on a helper: each reads the buffer the helper holds
\* and moves its reading state.
readNextSiblingNodeOf(helper) == [helper EXCEPT !.rs = readNextSiblingNode(helper.buf, helper.rs)]

readChildNodeOf(helper) == [helper EXCEPT !.rs = readChildNode(helper.buf, helper.rs)]

readParentNodeOf(helper) == [helper EXCEPT !.rs = readParentNode(helper.buf, helper.rs)]

\* DynamicPatriciaTrieNodeReader::fetchNodeInfoFromBuffer called on a node
\* reader constructed on the buffer b.
fetchNodeInfoFromBufferOf(b, nodePos) == Returned(b, fetchNodeInfoFromBuffer(b, nodePos))

\* BinaryDictionaryBigramsIterator constructed on the dictionary and run to
\* the end of the list at bigramsListPos.
BigramsIteratorOf(b, bigramsListPos) == Returned(b, BigramsOf(b, bigramsListPos))

\* DynamicPatriciaTriePolicy::getTerminalNodePositionOfWord, the loop.
RECURSIVE TerminalPositionLoopOf(_, _, _)
TerminalPositionLoopOf(helper, word, fuel) ==
    IF isEnd(helper.rs) \/ fuel = 0 THEN Returned(helper.buf, NOT_A_VALID_WORD_POS)
    ELSE IF getTotalCodePointCount(helper.rs) > Len(word) \/ helper.rs.node.codePoints[1] # word[helper.rs.prevTotal + 1]
         THEN TerminalPositionLoopOf(readNextSiblingNodeOf(helper), word, fuel - 1)
         ELSE IF MergedCodePointsMismatch(helper.rs.node, word, helper.rs.prevTotal) THEN Returned(helper.buf, NOT_A_VALID_WORD_POS)
         ELSE IF Len(word) = getTotalCodePointCount(helper.rs) THEN Returned(helper.buf, helper.rs.node.headPos)
         ELSE IF ~hasChildren(helper.rs.node) THEN Returned(helper.buf, NOT_A_VALID_WORD_POS)
         ELSE TerminalPositionLoopOf(readChildNodeOf(helper), word, fuel - 1)

\* DynamicPatriciaTriePolicy::getTerminalNodePositionOfWord
getTerminalNodePositionOfWordCall(b, word) == TerminalPositionLoopOf(ReadingHelperOn(b, initWithNodeArrayPos(b, getRootPosition)), word, MaxWalk)

\* DynamicPatriciaTriePolicy::getCodePointsAndProbabilityAndReturnCodePointCount,
\* the walk toward the root.
RECURSIVE ParentWalkOf(_, _, _, _)
ParentWalkOf(helper, maxCodePointCount, reverseCodePoints, fuel) ==
    IF fuel = 0 THEN Returned(helper.buf, [ok |-> FALSE, reverseCodePoints |-> reverseCodePoints])
    ELSE IF isEnd(helper.rs) THEN Returned(helper.buf, [ok |-> ~helper.rs.isError, reverseCodePoints |-> reverseCodePoints])
    ELSE IF getTotalCodePointCount(helper.rs) > maxCodePointCount THEN Returned(helper.buf, [ok |-> FALSE, reverseCodePoints |-> reverseCodePoints])
    ELSE ParentWalkOf(readParentNodeOf(helper), maxCodePointCount, reverseCodePoints \o Reverse(helper.rs.node.codePoints), fuel - 1)

\* DynamicPatriciaTriePolicy::getCodePointsAndProbabilityAndReturnCodePointCount
getCodePointsAndProbabilityCall(b, nodePos, maxCodePointCount) ==
    Let(ReadingHelperOn(b, initWithNodePos(b, nodePos)), LAMBDA helper :
        IF ~isValidTerminalNode(helper.rs)
        THEN Returned(helper.buf, [codePoints |-> <<>>, probability |-> NOT_A_PROBABILITY])
        ELSE Let(ParentWalkOf(helper, maxCodePointCount, <<>>, MaxWalk), LAMBDA w :
                 Returned(w.buf, IF w.value.ok THEN [codePoints |-> Reverse(w.value.reverseCodePoints), probability |-> helper.rs.node.probability]
                                 ELSE [codePoints |-> <<>>, probability |-> NOT_A_PROBABILITY])))

\* DynamicPatriciaTriePolicy::createAndGetAllChildNodes, the loop over the
\* PtNodes of the children array.
RECURSIVE ReadSiblingsOf(_, _)
ReadSiblingsOf(helper, fuel) ==
    IF isEnd(helper.rs) \/ fuel = 0 THEN Returned(helper.buf, <<>>)
    ELSE Let(ReadSiblingsOf(readNextSiblingNodeOf(helper), fuel - 1), LAMBDA rest : Returned(rest.buf, <<helper.rs.node>> \o rest.value))

\* DynamicPatriciaTriePolicy::createAndGetAllChildNodes
createAndGetAllChildNodesCall(b, nodePos) ==
    Let(fetchNodeInfoFromBuffer(b, nodePos), LAMBDA dicNode :
        IF ~hasChildren(dicNode) THEN Returned(b, <<>>)
        ELSE Let(ReadSiblingsOf(ReadingHelperOn(b, initWithNodeArrayPos(b, dicNode.childrenPos)), MaxWalk), LAMBDA read :
                 Returned(read.buf,
                     [i \in 1..Len(read.value) |->
                         [pos |-> read.value[i].headPos, childrenPos |-> read.value[i].childrenPos, probability |-> read.value[i].probability,
                          isTerminal |-> isTerminal(read.value[i]) /\ ~isDeleted(read.value[i].flags), hasChildren |-> hasChildren(read.value[i]),
                          isBlacklistedOrNotAWord |-> HasBit(read.value[i].flags, FLAG_IS_BLACKLISTED) \/ HasBit(read.value[i].flags, FLAG_IS_NOT_A_WORD),
                          codePoints |-> read.value[i].codePoints]])))

\* A getUnigramProbabilityOfPtNode that writes the probability it has read
\* back, lowered by one.
getUnigramProbabilityOfPtNodeCallWithDecay(b, nodePos) ==
    IF nodePos = NOT_A_VALID_WORD_POS THEN Returned(b, NOT_A_PROBABILITY)
    ELSE Let(fetchNodeInfoFromBufferOf(b, nodePos), LAMBDA nodeReader :
             IF isDeleted(nodeReader.value.flags) \/ HasBit(nodeReader.value.flags, FLAG_IS_BLACKLISTED) \/ HasBit(nodeReader.value.flags, FLAG_IS_NOT_A_WORD)
             THEN Returned(nodeReader.buf, NOT_A_PROBABILITY)
             ELSE Returned(WriteCell(StartWriting(nodeReader.buf), nodeReader.value.probabilityFieldPos, Max(nodeReader.value.probability - 1, 0), "probability").buf,
                           getProbability(nodeReader.value.probability, NOT_A_PROBABILITY)))

\* DynamicPatriciaTriePolicy::getUnigramProbabilityOfPtNode
getUnigramProbabilityOfPtNodeCall(b, nodePos) ==
    IF nodePos = NOT_A_VALID_WORD_POS THEN Returned(b, NOT_A_PROBABILITY)
    ELSE Let(fetchNodeInfoFromBufferOf(b, nodePos), LAMBDA nodeReader :
             IF isDeleted(nodeReader.value.flags) \/ HasBit(nodeReader.value.flags, FLAG_IS_BLACKLISTED) \/ HasBit(nodeReader.value.flags, FLAG_IS_NOT_A_WORD)
             THEN Returned(nodeReader.buf, NOT_A_PROBABILITY)
             ELSE Returned(nodeReader.buf, getProbability(nodeReader.value.probability, NOT_A_PROBABILITY)))

\* DynamicPatriciaTriePolicy::getBigramsPositionOfNode
getBigramsPositionOfNodeCall(b, nodePos) ==
    IF nodePos = NOT_A_VALID_WORD_POS THEN Returned(b, NOT_A_DICT_POS)
    ELSE Let(fetchNodeInfoFromBufferOf(b, nodePos), LAMBDA nodeReader :
             Returned(nodeReader.buf, IF isDeleted(nodeReader.value.flags) THEN NOT_A_DICT_POS ELSE nodeReader.value.bigramsPos))

\* BigramDictionary::getBigramListPositionForWord
getBigramListPositionForWordCall(b, prevWord) ==
    IF 0 >= Len(prevWord) THEN Returned(b, NOT_A_DICT_POS)
    ELSE Let(getTerminalNodePositionOfWordCall(b, prevWord), LAMBDA pos :
             IF pos.value = NOT_A_VALID_WORD_POS THEN Returned(pos.buf, NOT_A_DICT_POS) ELSE getBigramsPositionOfNodeCall(pos.buf, pos.value))

\* BigramDictionary::isValidBigram
isValidBigramCall(b, word0, word1) ==
    Let(getBigramListPositionForWordCall(b, word0), LAMBDA pos :
        IF pos.value = NOT_A_DICT_POS THEN Returned(pos.buf, FALSE)
        ELSE Let(getTerminalNodePositionOfWordCall(pos.buf, word1), LAMBDA nextWordPos :
                 IF nextWordPos.value = NOT_A_VALID_WORD_POS THEN Returned(nextWordPos.buf, FALSE)
                 ELSE Let(BigramsIteratorOf(nextWordPos.buf, pos.value), LAMBDA bigramsIt :
                          Returned(bigramsIt.buf, \E i \in 1..Len(bigramsIt.value) : bigramsIt.value[i].bigramPos = nextWordPos.value))))

\* BigramDictionary::getPredictions, the loop over the bigram entries from
\* the i-th on: acc.buf is the buffer the calls made so far have left.
RECURSIVE PredictionsLoopOf(_, _, _, _)
PredictionsLoopOf(entries, i, inputCodePoints, acc) ==
    IF i > Len(entries) THEN acc
    ELSE Let(getCodePointsAndProbabilityCall(acc.buf, entries[i].bigramPos, MAX_WORD_LENGTH), LAMBDA read :
         Let(IF read.value.codePoints = <<>> THEN acc.bigramBuffer ELSE read.value.codePoints, LAMBDA bigramBuffer :
             IF Len(inputCodePoints) < 1 \/ checkFirstCharacter(bigramBuffer, inputCodePoints)
             THEN PredictionsLoopOf(entries, i + 1, inputCodePoints,
                      [buf |-> read.buf,
                       bigramCount |-> acc.bigramCount + 1,
                       outputs |-> addWordBigram(acc.outputs, read.value.codePoints, computeProbabilityForBigram(read.value.probability, entries[i].probability)),
                       bigramBuffer |-> IF read.value.codePoints = <<>> THEN <<0>> ELSE bigramBuffer])
             ELSE PredictionsLoopOf(entries, i + 1, inputCodePoints, [acc EXCEPT !.buf = read.buf, !.bigramBuffer = bigramBuffer])))

\* BigramDictionary::getPredictions
getPredictionsCall(b, prevWord, inputCodePoints, uninitialized) ==
    Let(getBigramListPositionForWordCall(b, prevWord), LAMBDA exactPos :
    Let(IF exactPos.value = NOT_A_DICT_POS THEN getBigramListPositionForWordCall(exactPos.buf, [i \in 1..Len(prevWord) |-> toLowerCase(prevWord[i])]) ELSE exactPos, LAMBDA pos :
        IF pos.value = NOT_A_DICT_POS THEN Returned(pos.buf, [bigramCount |-> 0, outputs |-> NoPredictions])
        ELSE Let(BigramsIteratorOf(pos.buf, pos.value), LAMBDA bigramsIt :
             Let(PredictionsLoopOf(bigramsIt.value, 1, inputCodePoints, [buf |-> bigramsIt.buf, bigramCount |-> 0, outputs |-> NoPredictions, bigramBuffer |-> <<uninitialized>>]), LAMBDA done :
                 Returned(done.buf, [bigramCount |-> Min(done.bigramCount, MAX_RESULTS), outputs |-> done.outputs])))))

\* MultiBigramMap::BigramMap::init
BigramMap_initCall(b, nodePos) ==
    Let(getBigramsPositionOfNodeCall(b, nodePos), LAMBDA bigramsListPos :
    Let(BigramsIteratorOf(bigramsListPos.buf, bigramsListPos.value), LAMBDA bigramsIt :
        LET entries == bigramsIt.value
            positions == {entries[i].bigramPos : i \in 1..Len(entries)}
            lastOf(t) == CHOOSE i \in 1..Len(entries) : entries[i].bigramPos = t /\ \A j \in 1..Len(entries) : entries[j].bigramPos = t => j <= i
        IN Returned(bigramsIt.buf, [mBigramMap |-> [t \in positions |-> entries[lastOf(t)].probability], mBloomFilter |-> {BloomFilterIndex(t) : t \in positions}])))

\* MultiBigramMap::readBigramProbabilityFromBinaryDictionary
readBigramProbabilityFromBinaryDictionaryCall(b, nodePos, nextWordPosition, unigramProbability) ==
    Let(getBigramsPositionOfNodeCall(b, nodePos), LAMBDA bigramsListPos :
    Let(BigramsIteratorOf(bigramsListPos.buf, bigramsListPos.value), LAMBDA bigramsIt :
        LET entries == bigramsIt.value
            hits == {i \in 1..Len(entries) : entries[i].bigramPos = nextWordPosition}
        IN Returned(bigramsIt.buf, IF hits = {} THEN backoff(unigramProbability)
                                   ELSE computeProbabilityForBigram(unigramProbability, entries[CHOOSE i \in hits : \A j \in hits : i <= j].probability))))

\* MultiBigramMap::getBigramProbability: the maps after the call and the
\* probability returned, and the buffer of the dictionary it was given.
getBigramProbabilityCall(maps, b, wordPosition, nextWordPosition, unigramProbability) ==
    IF wordPosition \in DOMAIN maps
    THEN Returned(b, [mBigramMaps |-> maps, probability |-> BigramMap_getBigramProbability(maps[wordPosition], nextWordPosition, unigramProbability)])
    ELSE IF Cardinality(DOMAIN maps) < MAX_CACHED_PREV_WORDS_IN_BIGRAM_MAP
    THEN Let(BigramMap_initCall(b, wordPosition), LAMBDA init :
         Let([p \in DOMAIN maps \cup {wordPosition} |-> IF p = wordPosition THEN init.value ELSE maps[p]], LAMBDA added :
             Returned(init.buf, [mBigramMaps |-> added, probability |-> BigramMap_getBigramProbability(added[wordPosition], nextWordPosition, unigramProbability)])))
    ELSE Let(readBigramProbabilityFromBinaryDictionaryCall(b, wordPosition, nextWordPosition, unigramProbability), LAMBDA read :
             Returned(read.buf, [mBigramMaps |-> maps, probability |-> read.value]))

ReadOnlyQueries ==
    { "getTerminalNodePositionOfWord", "getCodePointsAndProbabilityAndReturnCodePointCount", "createAndGetAllChildNodes",
      "getUnigramProbabilityOfPtNode", "getBigramsPositionOfNode", "isValidBigram", "getPredictions" }

\* A read-only query made for word0 (and word1): what it returns and the
\* buffer it leaves.  The queries that take a position are asked about the
\* position the lookup of word0 gives.
Query(b, query, word0, word1) ==
    Let(getTerminalNodePositionOfWordCall(b, word0), LAMBDA pos :
        CASE query = "getTerminalNodePositionOfWord" -> pos
          [] query = "getCodePointsAndProbabilityAndReturnCodePointCount" -> getCodePointsAndProbabilityCall(pos.buf, pos.value, MAX_WORD_LENGTH)
          [] query = "createAndGetAllChildNodes" -> createAndGetAllChildNodesCall(pos.buf, pos.value)
          [] query = "getUnigramProbabilityOfPtNode" -> getUnigramProbabilityOfPtNodeCall(pos.buf, pos.value)
          [] query = "getBigramsPositionOfNode" -> getBigramsPositionOfNodeCall(pos.buf, pos.value)
          [] query = "isValidBigram" -> isValidBigramCall(b, word0, word1)
          [] OTHER -> getPredictionsCall(b, word0, <<>>, NOT_A_CODE_POINT))

\* What the same query returns when it is computed from the buffer alone.
QueryAnswer(b, query, word0, word1) ==
    Let(getTerminalNodePositionOfWord(b, word0), LAMBDA pos :
        CASE query = "getTerminalNodePositionOfWord" -> pos
          [] query = "getCodePointsAndProbabilityAndReturnCodePointCount" -> getCodePointsAndProbability(b, pos, MAX_WORD_LENGTH)
          [] query = "createAndGetAllChildNodes" -> createAndGetAllChildNodes(b, pos)
          [] query = "getUnigramProbabilityOfPtNode" -> getUnigramProbabilityOfPtNode(b, pos)
          [] query = "getBigramsPositionOfNode" -> getBigramsPositionOfNode(b, pos)
          [] query = "isValidBigram" -> isValidBigram(b, word0, word1)
          [] OTHER -> getPredictions(b, word0, <<>>, NOT_A_CODE_POINT))

\* One of the read-only queries is made: the dictionary holds the buffer the
\* query has left.
ReadOnlyQuery ==
    \E query \in ReadOnlyQueries, word0 \in Words, word1 \in Words :
        /\ query # "isValidBigram" => word1 = word0
        /\ \E read \in {Query(buf, query, word0, word1)} :
               /\ lastOp' = [kind |-> query, word0 |-> word0, word1 |-> word1, probability |-> NOT_A_PROBABILITY, result |-> TRUE]
               /\ answer' = <<read.value>>
               /\ buf' = read.buf
               /\ prevBuf' = buf
               /\ lastLog' = <<>>
               /\ UNCHANGED <<unigrams, bigrams, failed, nOps, gcBuf, lastFlush, mBigramMaps, lastQuery, decoderVars, isUpdatable, sizeVars>>

\* MultiBigramMap::getBigramProbability called by the search: the
\* dictionary holds the buffer the call has left.
GetBigramProbabilityOfTheDictionary ==
    \E wordPosition \in WordPositions(buf), nextWordPosition \in WordPositions(buf), unigramProbability \in Probabilities :
    \E read \in {getBigramProbabilityCall(mBigramMaps, buf, wordPosition, nextWordPosition, unigramProbability)} :
        /\ Answers(read.value, wordPosition, nextWordPosition, unigramProbability)
        /\ buf' = read.buf
        /\ prevBuf' = buf
        /\ UNCHANGED <<lastOp, lastLog, unigrams, bigrams, failed, nOps, gcBuf, lastFlush, answer, decoderVars, isUpdatable, sizeVars>>

QueryNext == ReadOnlyQuery \/ GetBigramProbabilityOfTheDictionary \/ ClearBigramMaps

QuerySpec == SearchInit /\ [][QueryNext]_vars

\* ------------------------------------------------------------ the claims
\* C1: after successful calls only, every word whose most recent
\* addUnigramWord used probability p is found by
\* getTerminalNodePositionOfWord, and the PtNode found is terminal and stores
\* the unigram probability p.
C1_LookupRoundTrip ==
    ~failed =>
        \A u \in unigrams :
            Let(getTerminalNodePositionOfWord(buf, u[1]), LAMBDA pos :
                /\ pos # NOT_A_VALID_WORD_POS
                /\ Let(fetchNodeInfoFromBuffer(buf, pos), LAMBDA n : isTerminal(n) /\ ~isDeleted(n.flags) /\ n.probability = u[2]))

\* C1 witness: a word that was already in the dictionary has just been given
\* another probability, after a bigram was added, and all calls succeeded.
C1_Witness ==
    /\ ~failed
    /\ lastOp.kind = "addUnigramWord"
    /\ bigrams # {}
    /\ getTerminalNodePositionOfWord(prevBuf, lastOp.word0) # NOT_A_VALID_WORD_POS
    /\ fetchNodeInfoFromBuffer(prevBuf, getTerminalNodePositionOfWord(prevBuf, lastOp.word0)).probability \notin {NOT_A_PROBABILITY, lastOp.probability}
    /\ <<lastOp.word0, lastOp.probability>> \in unigrams

\* C2: getTerminalNodePositionOfWord returns a terminal PtNode's position or
\* NOT_A_VALID_WORD_POS; a word never added as a unigram (such as the shared
\* prefix a split leaves behind) is not found.
C2_LookupFindsOnlyAddedWords ==
    ~failed =>
        \A word \in Words :
            Let(getTerminalNodePositionOfWord(buf, word), LAMBDA pos :
                /\ (pos # NOT_A_VALID_WORD_POS => isTerminal(fetchNodeInfoFromBuffer(buf, pos)))
                /\ ((\A u \in unigrams : u[1] # word) => pos = NOT_A_VALID_WORD_POS))

\* C3: parent consistency: for every added word w, walking the parent
\* offsets from the PtNode found for w spells exactly w, and the probability
\* read on the way is the one w was added with.
C3_ParentConsistency ==
    ~failed =>
        \A u \in unigrams :
            getCodePointsAndProbability(buf, getTerminalNodePositionOfWord(buf, u[1]), MAX_WORD_LENGTH) = [codePoints |-> u[1], probability |-> u[2]]

\* C4: a bigram added by a call of addBigramWords that returned true is
\* reported by isValidBigram in every later state, until removeBigramWords
\* is called for it.
C4_BigramStaysValid == \A pair \in bigrams : isValidBigram(buf, pair[1], pair[2])

\* C4, for the runs in which every call returned true.
C4_BigramStaysValidWithoutFailure == ~failed => C4_BigramStaysValid

\* The words in the output slots of a prediction.
PredictedWords(b, prevWord) == Let(getPredictions(b, prevWord, <<>>, NOT_A_CODE_POINT).outputs, LAMBDA out : {out[i].codePoints : i \in 1..MAX_RESULTS} \ {<<>>})

\* C5: after removeBigramWords(a, b) has returned true, isValidBigram(a, b)
\* is false, the prediction for the previous word a does not output b, and
\* every other word predicted for a before the call is still predicted.
C5_RemovedBigramIsGone ==
    (~failed /\ lastOp.kind = "removeBigramWords" /\ lastOp.result) =>
        /\ ~isValidBigram(buf, lastOp.word0, lastOp.word1)
        /\ lastOp.word1 \notin PredictedWords(buf, lastOp.word0)
        /\ PredictedWords(prevBuf, lastOp.word0) \ {lastOp.word1} \subseteq PredictedWords(buf, lastOp.word0)

\* C5, the part about the other entries: the words predicted for a before
\* the removal, other than b, are still predicted after it.
C5_SiblingsStillReported ==
    (~failed /\ lastOp.kind = "removeBigramWords" /\ lastOp.result) =>
        PredictedWords(prevBuf, lastOp.word0) \ {lastOp.word1} \subseteq PredictedWords(buf, lastOp.word0)

\* C6: whatever MultiBigramMap::getBigramProbability answers, from a cached
\* BigramMap or not, is what the linear scan of the bigram list answers for
\* the same word position, next word position and unigram probability.
C6_CachedEqualsUncached ==
    lastQuery.asked => lastQuery.probability = readBigramProbabilityFromBinaryDictionary(buf, lastQuery.wordPosition, lastQuery.nextWordPosition, lastQuery.unigramProbability)

\* C7: a children position field, a forward link field or the moved-redirect
\* of an existing PtNode is patched to refer to a tail position only after
\* that position has been written.
C7_PublishLast ==
    \A i \in 1..Len(lastLog) :
        LET e == lastLog[i]
            isRedirect == e.kind = "parentOffset" /\ i > 1 /\ lastLog[i - 1].kind = "flags" /\ lastLog[i - 1].pos = e.pos - 1 /\ isMoved(lastLog[i - 1].val)
            target == IF e.kind = "parentOffset" THEN e.pos - 1 + e.val ELSE e.pos + e.val
        IN (/\ e.pos <= Len(prevBuf)
            /\ e.val # 0
            /\ e.kind \in {"childrenPos", "forwardLink"} \/ isRedirect
            /\ target > Len(prevBuf))
           => \E j \in 1..(i - 1) : lastLog[j].pos = target

\* The calls that change the dictionary in use.
Mutations == {"addUnigramWord", "addBigramWords", "removeBigramWords"}

\* C8: a call that returns false leaves the buffer as it was before the call.
C8_FailedCallLeavesBufferUnchanged == (lastOp.kind \in Mutations /\ ~lastOp.result) => buf = prevBuf

\* The kinds of field a mutation may patch in place.
PatchedFlagAndOffsetFields == {"flags", "parentOffset", "childrenPos", "forwardLink"}

\* The cells below the tail of before that differ in after are all written
\* by the log as fields of one of the kinds.
OnlyPatches(before, after, log, kinds) ==
    /\ Len(after) >= Len(before)
    /\ \A p \in 1..Len(before) : after[p] # before[p] => \E i \in 1..Len(log) : log[i].pos = p /\ log[i].kind \in kinds

\* C9 as stated: every mutation leaves the cells below the pre-call tail
\* unchanged except for patches of flags, parent offset, children position
\* and forward link fields, and the tail never decreases.
C9_OnlyFlagAndOffsetPatches == lastOp.kind \in Mutations => OnlyPatches(prevBuf, buf, lastLog, PatchedFlagAndOffsetFields)

\* C9 amended: the in-place patches are those of flags, parent offset,
\* children position and forward link fields, of the probability field of a
\* terminal PtNode, and of the flags and target fields of bigram entries;
\* every other cell below the pre-call tail is unchanged, and the tail never
\* decreases.
C9_AppendOnlyExceptPatches == lastOp.kind \in Mutations => OnlyPatches(prevBuf, buf, lastLog, PatchedFlagAndOffsetFields \cup {"probability", "bigramFlags", "bigramTarget"})

\* C9 witness: a successful removeBigramWords changed the target field of a
\* bigram entry below the pre-call tail, in a buffer that earlier calls had
\* appended to.
C9_Witness ==
    /\ lastOp.kind = "removeBigramWords"
    /\ lastOp.result
    /\ Len(buf) = Len(prevBuf)
    /\ \E p \in 1..Len(prevBuf) : buf[p] # prevBuf[p] /\ \E i \in 1..Len(lastLog) : lastLog[i].pos = p /\ lastLog[i].kind = "bigramTarget"

\* The layout of a buffer that holds PtNodeArrays one after the other: the
\* head positions of the count PtNodes stored from pos on.
RECURSIVE PtNodesStoredFrom(_, _, _)
PtNodesStoredFrom(b, pos, count) == IF count <= 0 \/ pos > Len(b) THEN <<>> ELSE <<pos>> \o PtNodesStoredFrom(b, RawPtNode(b, pos).siblingPos, count - 1)

\* The PtNodeArrays stored from pos on: for each its position, the head
\* positions of its PtNodes and the position of its forward link field.
RECURSIVE PtNodeArraysStoredFrom(_, _, _)
PtNodeArraysStoredFrom(b, pos, fuel) ==
    IF pos > Len(b) \/ fuel = 0 THEN <<>>
    ELSE Let(PtNodesStoredFrom(b, pos + 1, Cell(b, pos)), LAMBDA heads :
         Let(IF heads = <<>> THEN pos + 1 ELSE RawPtNode(b, heads[Len(heads)]).siblingPos, LAMBDA forwardLinkFieldPos :
             <<[pos |-> pos, heads |-> heads, forwardLinkFieldPos |-> forwardLinkFieldPos]>> \o PtNodeArraysStoredFrom(b, forwardLinkFieldPos + 1, fuel - 1)))

\* Every PtNode of the arrays is neither moved nor deleted, and its parent
\* position, children position and bigram targets are PtNodes or arrays of
\* the buffer; every forward link is empty or an array of the buffer.
NoMovedLeaks(b, arrays) ==
    LET arrayPositions == {arrays[i].pos : i \in 1..Len(arrays)}
        nodePositions == UNION {{arrays[i].heads[k] : k \in 1..Len(arrays[i].heads)} : i \in 1..Len(arrays)}
    IN /\ \A i \in 1..Len(arrays) : ReadOffsetField(b, arrays[i].forwardLinkFieldPos) \in arrayPositions \cup {NOT_A_DICT_POS}
       /\ \A head \in nodePositions :
              Let(RawPtNode(b, head), LAMBDA n :
                  /\ ~isMoved(n.flags)
                  /\ ~isDeleted(n.flags)
                  /\ n.parentPos \in nodePositions \cup {NOT_A_DICT_POS}
                  /\ n.childrenPos \in arrayPositions \cup {NOT_A_DICT_POS}
                  /\ \A e \in {BigramEntryPositions(b, n.bigramsPos, MaxWalk)[k] : k \in 1..Len(BigramEntryPositions(b, n.bigramsPos, MaxWalk))} : BigramTargetOf(b, e + 1) \in nodePositions)

\* C10: after a successful flush with GC, no PtNode of the buffer written is
\* marked moved or deleted, and every children position, parent offset and
\* bigram target of it refers to a PtNode or PtNodeArray of that buffer.
C10_NoMovedLeaksAfterGC == (lastOp.kind = "flushWithGC" /\ lastOp.result) => NoMovedLeaks(gcBuf, PtNodeArraysStoredFrom(gcBuf, getRootPosition, MaxWalk))

\* C10 witness: a flush with GC has just succeeded on a dictionary in which
\* PtNodes were moved; the buffer written is shorter than the one in use and
\* holds a PtNode with a parent, one with children and a bigram entry.
C10_Witness ==
    /\ lastOp.kind = "flushWithGC"
    /\ lastOp.result
    /\ Len(gcBuf) < Len(buf)
    /\ \E p \in 1..Len(buf) : isMoved(buf[p]) /\ RawPtNode(buf, p).parentPos > p
    /\ Let(PtNodeArraysStoredFrom(gcBuf, getRootPosition, MaxWalk), LAMBDA arrays :
           \E i \in 1..Len(arrays) : \E k \in 1..Len(arrays[i].heads) :
               Let(RawPtNode(gcBuf, arrays[i].heads[k]), LAMBDA n :
                   /\ n.parentPos # NOT_A_DICT_POS
                   /\ n.bigramsPos # NOT_A_DICT_POS
                   /\ \E j \in 1..Len(arrays) : \E m \in 1..Len(arrays[j].heads) : RawPtNode(gcBuf, arrays[j].heads[m]).childrenPos # NOT_A_DICT_POS))

\* What the dictionary in buffer b answers about the words: for each word
\* whether the lookup finds it and its unigram probability, and for each pair
\* of words whether it is a valid bigram.
ContentOf(b) ==
    [found |-> [w \in Words |-> getTerminalNodePositionOfWord(b, w) # NOT_A_VALID_WORD_POS],
     probability |-> [w \in Words |-> getUnigramProbabilityOfPtNode(b, getTerminalNodePositionOfWord(b, w))],
     validBigram |-> [pair \in Words \X Words |-> isValidBigram(b, pair[1], pair[2])]]

\* C11: the dictionary a successful flush with GC has written answers the
\* lookup of every word, its unigram probability and isValidBigram of every
\* pair as the dictionary did before the GC.
C11_GCPreservesContent == (lastOp.kind = "flushWithGC" /\ lastOp.result) => ContentOf(gcBuf) = ContentOf(prevBuf)

\* C11 witness: a flush with GC has just written a dictionary shorter than
\* the one in use, which holds a moved PtNode, a valid bigram, a word with a
\* probability other than the initial one and a word that is not found.
C11_Witness ==
    /\ lastOp.kind = "flushWithGC"
    /\ lastOp.result
    /\ Len(gcBuf) < Len(prevBuf)
    /\ \E p \in 1..Len(prevBuf) : isMoved(prevBuf[p])
    /\ \E pair \in Words \X Words : ContentOf(prevBuf).validBigram[pair]
    /\ \E w \in Words : ContentOf(prevBuf).found[w] /\ ContentOf(prevBuf).probability[w] # backoff(InitialProbability)
    /\ \E w \in Words : ~ContentOf(prevBuf).found[w]

\* C12: the new buffers are flushed only after every phase of the GC and the
\* header write succeeded; when one of them fails, the steps after it are
\* not run, nothing is flushed and the call returns false.  lastFlush.failing
\* is the step made to fail; a phase can also fail on its own, on a
\* dictionary that a failed call has left half written.
C12_FlushOnlyAfterEveryPhase ==
    lastOp.kind = "flushWithGC" =>
        /\ \E n \in 0..Len(FlushSteps(lastFlush.isDecayingDict)) : lastFlush.steps = SubSeq(FlushSteps(lastFlush.isDecayingDict), 1, n)
        /\ (lastFlush.flushed \/ "flushHeaderAndDictBuffers" \in {lastFlush.steps[i] : i \in 1..Len(lastFlush.steps)}) =>
               (lastFlush.steps = FlushSteps(lastFlush.isDecayingDict) /\ lastFlush.failing \notin 1..(Len(FlushSteps(lastFlush.isDecayingDict)) - 1))
        /\ lastFlush.failing \in 1..(Len(FlushSteps(lastFlush.isDecayingDict)) - 1) =>
               (Len(lastFlush.steps) <= lastFlush.failing /\ ~lastFlush.flushed /\ ~lastOp.result)
        /\ lastFlush.steps # FlushSteps(lastFlush.isDecayingDict) => (~lastFlush.flushed /\ ~lastOp.result)
        /\ lastOp.result = lastFlush.flushed

\* C12 witness: a flush with GC failed in a phase after the new buffer was
\* written, and the dictionary file is still the one an earlier flush wrote
\* from a different buffer.
C12_Witness ==
    /\ lastOp.kind = "flushWithGC"
    /\ ~lastOp.result
    /\ lastFlush.failing \in (PhaseIndex(FALSE, "placeAndWriteValidPtNodesToBuffer") + 1)..(Len(FlushSteps(FALSE)) - 1)
    /\ gcBuf # <<>>
    /\ gcBuf # writeToDictFileWithGC(prevBuf, {}, 0, FALSE, <<0, 0>>, <<0, 0>>).written

\* C13: a read-only query of the dictionary, and a query of the
\* MultiBigramMap, leaves every cell of the trie buffer and its tail
\* position as they were: the buffer the readers of the query hand back is
\* the buffer they were constructed on, and what the query returns is what
\* that buffer holds.  Every step of QuerySpec is one of these queries or a
\* clear() of the MultiBigramMap.
C13_QueriesLeaveTheBufferUnchanged ==
    [][/\ buf' = buf
       /\ lastOp'.kind \in ReadOnlyQueries => answer' = <<QueryAnswer(buf, lastOp'.kind, lastOp'.word0, lastOp'.word1)>>]_vars

\* C13 witness: getPredictions has just returned predictions from a buffer
\* that holds a moved PtNode, after the MultiBigramMap cached a word.
C13_Witness ==
    /\ lastOp.kind = "getPredictions"
    /\ answer[1].bigramCount > 0
    /\ \E p \in 1..Len(buf) : isMoved(buf[p])
    /\ DOMAIN mBigramMaps # {}
    /\ buf = prevBuf

\* C14: addBigramWords and removeBigramWords return false and leave the
\* buffer unchanged when the lookup of either word returns
\* NOT_A_VALID_WORD_POS, and so does removeBigramWords when the PtNode of
\* the first word has no bigram list.
C14_AbsentWordFailsWithoutChange ==
    (/\ lastOp.kind \in {"addBigramWords", "removeBigramWords"}
     /\ \/ getTerminalNodePositionOfWord(prevBuf, lastOp.word0) = NOT_A_VALID_WORD_POS
        \/ getTerminalNodePositionOfWord(prevBuf, lastOp.word1) = NOT_A_VALID_WORD_POS
        \/ (lastOp.kind = "removeBigramWords" /\ fetchNodeInfoFromBuffer(prevBuf, getTerminalNodePositionOfWord(prevBuf, lastOp.word0)).bigramsPos = NOT_A_DICT_POS))
    => (~lastOp.result /\ buf = prevBuf)

\* C14 witness: addBigramWords has just returned false for a first word
\* that is in the dictionary and a second word that is not.
C14_Witness ==
    /\ lastOp.kind = "addBigramWords"
    /\ ~lastOp.result
    /\ getTerminalNodePositionOfWord(prevBuf, lastOp.word0) # NOT_A_VALID_WORD_POS
    /\ getTerminalNodePositionOfWord(prevBuf, lastOp.word1) = NOT_A_VALID_WORD_POS
    /\ buf = prevBuf

\* C15: the number of previous-word positions cached never exceeds
\* MAX_CACHED_PREV_WORDS_IN_BIGRAM_MAP, and a query made with a full cache
\* for a previous word that is not cached leaves the cache as it was and
\* returns what the direct scan of the bigram list returns.
C15_CacheIsBounded ==
    /\ [](Cardinality(DOMAIN mBigramMaps) <= MAX_CACHED_PREV_WORDS_IN_BIGRAM_MAP)
    /\ [][(/\ GetBigramProbability
           /\ Cardinality(DOMAIN mBigramMaps) = MAX_CACHED_PREV_WORDS_IN_BIGRAM_MAP
           /\ lastQuery'.wordPosition \notin DOMAIN mBigramMaps)
          => (/\ mBigramMaps' = mBigramMaps
              /\ lastQuery'.probability = readBigramProbabilityFromBinaryDictionary(buf, lastQuery'.wordPosition, lastQuery'.nextWordPosition, lastQuery'.unigramProbability))]_vars

\* C15 witness: with the cache full, the last query was about a previous
\* word that is not cached and has the next word in its bigram list.
C15_Witness ==
    /\ lastQuery.asked
    /\ Cardinality(DOMAIN mBigramMaps) = MAX_CACHED_PREV_WORDS_IN_BIGRAM_MAP
    /\ lastQuery.wordPosition \notin DOMAIN mBigramMaps
    /\ lastQuery.probability # backoff(lastQuery.unigramProbability)

\* The probabilities the bigram list of the PtNode at nodePos in b can
\* give for nextWordPosition: one per entry for it, the backoff of the
\* unigram probability when there is none.
ProbabilitiesInDictionary(b, nodePos, nextWordPosition, unigramProbability) ==
    Let(BigramsOf(b, getBigramsPositionOfNode(b, nodePos)), LAMBDA entries :
        Let({i \in 1..Len(entries) : entries[i].bigramPos = nextWordPosition}, LAMBDA hits :
            IF hits = {} THEN {backoff(unigramProbability)}
            ELSE {computeProbabilityForBigram(unigramProbability, entries[i].probability) : i \in hits}))

\* C16: clear() leaves no previous word cached, and a query for a previous
\* word that is not cached is answered from the bigram list the dictionary
\* holds at the time of the query, the list being cached as it is read then:
\* bigrams added or removed since the last search are reflected.
C16_NoStateAcrossSearches ==
    /\ [][ClearBigramMaps => mBigramMaps' = <<>>]_vars
    /\ [][(GetBigramProbability /\ lastQuery'.wordPosition \notin DOMAIN mBigramMaps)
          => (/\ lastQuery'.probability \in ProbabilitiesInDictionary(buf, lastQuery'.wordPosition, lastQuery'.nextWordPosition, lastQuery'.unigramProbability)
              /\ lastQuery'.wordPosition \in DOMAIN mBigramMaps' => mBigramMaps'[lastQuery'.wordPosition] = BigramMap_init(buf, lastQuery'.wordPosition))]_vars

\* C16 witness: a bigram has been removed, and the query about its two
\* words is answered with the backoff from a map that was read after the
\* removal, the bigram being in the list before the removal.
C16_Witness ==
    /\ lastOp.kind = "removeBigramWords"
    /\ lastOp.result
    /\ lastQuery.asked
    /\ lastQuery.wordPosition = getTerminalNodePositionOfWord(buf, lastOp.word0)
    /\ lastQuery.nextWordPosition = getTerminalNodePositionOfWord(buf, lastOp.word1)
    /\ lastQuery.probability = backoff(lastQuery.unigramProbability)
    /\ lastQuery.wordPosition \in DOMAIN mBigramMaps
    /\ mBigramMaps[lastQuery.wordPosition] = BigramMap_init(buf, lastQuery.wordPosition)
    /\ lastQuery.nextWordPosition \in DOMAIN BigramMap_init(prevBuf, lastQuery.wordPosition).mBigramMap

\* Whether entry e ranks above entry f: a higher probability, or the same
\* probability and fewer code points.
RanksAbove(e, f) == e.probability > f.probability \/ (e.probability = f.probability /\ Len(e.codePoints) < Len(f.codePoints))

\* The slots are in rank order.
Ranked(outputs) == \A i \in 1..MAX_RESULTS, j \in 1..MAX_RESULTS : i < j => ~RanksAbove(outputs[j], outputs[i])

\* after is before with entry e put in at slot k and the last slot dropped.
InsertedAt(before, after, e, k) ==
    /\ after[k] = e
    /\ \A i \in 1..MAX_RESULTS : i < k => after[i] = before[i]
    /\ \A i \in 1..MAX_RESULTS : i > k => after[i] = before[i - 1]

\* C17: after every addWordBigram call the MAX_RESULTS slots are ordered by
\* probability descending and, among equal probabilities, by fewer code
\* points first; the call either leaves the list as it was or puts the new
\* entry in and drops the last slot, the other entries staying as they were;
\* and on a full list the entry is put in exactly when it ranks above the
\* lowest entry.
C17_RankedInsertion ==
    lastOp.kind = "addWordBigram" =>
        Let([codePoints |-> lastOp.word0, probability |-> lastOp.probability], LAMBDA e :
            /\ Ranked(answer[2])
            /\ answer[2] = answer[1] \/ \E k \in 1..MAX_RESULTS : InsertedAt(answer[1], answer[2], e, k)
            /\ (\A i \in 1..MAX_RESULTS : answer[1][i].probability > 0)
               => (answer[2] # answer[1] <=> RanksAbove(e, answer[1][MAX_RESULTS])))

\* The ordering alone: after every addWordBigram call the slots are in rank
\* order.
C17_SlotsStayRanked == lastOp.kind = "addWordBigram" => Ranked(answer[2])

\* C18: the count getPredictions returns is at most MAX_RESULTS whatever the
\* number of entries in the bigram list of the previous word, and
\* getSuggestions of a typing decoder wrapper that holds no decoder returns 0.
C18_BoundedCount ==
    /\ answer # NoAnswer => answer[1].bigramCount <= MAX_RESULTS
    /\ (lastOp.kind = "getSuggestions" /\ ~mIncrementalDecoderInterface) => lastOp.count = 0

\* C18 witness: getPredictions has returned MAX_RESULTS for a previous word
\* with more entries than that in its bigram list, and the wrapper, holding
\* no decoder while a factory method is set, has returned 0.
C18_Witness ==
    /\ answer # NoAnswer
    /\ Len(BigramsOf(buf, getBigramListPositionForWord(buf, answer[2]))) > MAX_RESULTS
    /\ answer[1].bigramCount = MAX_RESULTS
    /\ lastOp.kind = "getSuggestions"
    /\ sIncrementalDecoderFactoryMethod # NoFactoryMethod
    /\ ~mIncrementalDecoderInterface
    /\ lastOp.count = 0

\* The composed probability of a bigram entry: of the unigram probability
\* stored in the PtNode of the successor and the bigram value of the entry.
ComposedProbability(b, entry) == computeProbabilityForBigram(fetchNodeInfoFromBuffer(b, entry.bigramPos).probability, entry.probability)

\* Output slot slot is the successor of entry entry: its word is looked up
\* at the entry's position and its probability is the composed one.
IsSuccessor(b, slot, entry) ==
    /\ entry.bigramPos # NOT_A_DICT_POS
    /\ slot.codePoints # <<>>
    /\ getTerminalNodePositionOfWord(b, slot.codePoints) = entry.bigramPos
    /\ slot.probability = ComposedProbability(b, entry)

\* r, returned by getPredictions in prediction mode, is the top
\* MAX_RESULTS of the successors that entries lists.
TopSuccessors(b, entries, r) ==
    Let({i \in 1..Len(entries) : entries[i].bigramPos # NOT_A_DICT_POS}, LAMBDA successors :
        Let({k \in 1..MAX_RESULTS : r.outputs[k].probability > 0}, LAMBDA filled :
            /\ r.bigramCount = Min(Cardinality(successors), MAX_RESULTS)
            /\ Cardinality(filled) = Min(Cardinality(successors), MAX_RESULTS)
            /\ \A k \in filled : \E i \in successors : IsSuccessor(b, r.outputs[k], entries[i])
            /\ \A k \in filled, l \in filled : k < l => r.outputs[k].probability >= r.outputs[l].probability
            /\ \A i \in successors :
                   (\A k \in filled : ~IsSuccessor(b, r.outputs[k], entries[i]))
                   => \A k \in filled : ComposedProbability(b, entries[i]) <= r.outputs[k].probability))

\* C19: for every previous word that has a bigram list, getPredictions
\* called with no input outputs successors of that word, each with its
\* composed probability, in descending order of it; it outputs and counts
\* min(n, MAX_RESULTS) of the n successors, and a successor it leaves out
\* has no higher composed probability than one it outputs.
C19_PredictionsAreTheTopSuccessors ==
    \A prevWord \in Words :
        Let(getBigramListPositionForWord(buf, prevWord), LAMBDA pos :
            pos # NOT_A_DICT_POS => TopSuccessors(buf, BigramsOf(buf, pos), getPredictions(buf, prevWord, <<>>, NOT_A_CODE_POINT)))

\* No code point and no probability: what a failed
\* getCodePointsAndProbabilityAndReturnCodePointCount returns.
NoCodePoints == [codePoints |-> <<>>, probability |-> NOT_A_PROBABILITY]

\* C20: getCodePointsAndProbabilityAndReturnCodePointCount returns 0 with
\* NOT_A_PROBABILITY when the position is not a valid terminal, when the
\* walk toward the root meets more than maxCodePointCount code points, and
\* when it ends in error; it returns at most maxCodePointCount code points,
\* and the call never has more than that stored, and nothing when the
\* position is not a valid terminal.
C20_FailsSafely ==
    answer # NoAnswer =>
        Let(initWithNodePos(answer[5], answer[2]), LAMBDA rs :
            /\ Len(answer[1].codePoints) <= answer[3]
            /\ Len(answer[4].reverseCodePoints) <= answer[3]
            /\ answer[1].codePoints = <<>> => answer[1] = NoCodePoints
            /\ ~isValidTerminalNode(rs) => answer[1] = NoCodePoints /\ answer[4].reverseCodePoints = <<>>
            /\ ~answer[4].ok => answer[1] = NoCodePoints
            /\ Len(ParentWalk(answer[5], rs, MAX_WORD_LENGTH, <<>>, MaxWalk).reverseCodePoints) > answer[3] => answer[1] = NoCodePoints)

\* C20 witness: the call was made for the position of a terminal whose
\* word is longer than maxCodePointCount and has returned no code point,
\* the walk having stored the code points of the PtNodes below the limit.
C20_Witness ==
    /\ answer # NoAnswer
    /\ isValidTerminalNode(initWithNodePos(answer[5], answer[2]))
    /\ \E word \in Words : getTerminalNodePositionOfWord(answer[5], word) = answer[2] /\ Len(word) > answer[3]
    /\ answer[4].reverseCodePoints # <<>>
    /\ answer[1] = NoCodePoints

\* C21: a flush with GC, whether it succeeds or fails part-way, leaves the
\* buffer in use as it was before the call, and the lookups, the unigram
\* probabilities and the bigrams read from it are what they were.
C21_GCLeavesTheDictionaryInUseUntouched ==
    lastOp.kind = "flushWithGC" => (buf = prevBuf /\ ContentOf(buf) = ContentOf(prevBuf))

\* The PtNodes of b that are marked moved.  A flags field is the only field
\* that holds a value from FLAG_IS_MOVED to FLAG_IS_DELETED - 1: code points,
\* probabilities, sizes and offsets are smaller, bigram flags with a next
\* entry are larger.
MovedPtNodes(b) == {p \in 1..Len(b) : isMoved(b[p])}

\* C22: the children position field of a PtNode marked moved holds the
\* position of a PtNode of the buffer that is not marked moved itself and
\* that is terminal when the moved PtNode is: following the redirect once
\* reaches the replacement, after any sequence of mutations.
C22_RedirectReachesTheReplacement ==
    \A p \in MovedPtNodes(buf) :
        Let(RawPtNode(buf, p), LAMBDA original :
        Let(RawPtNode(buf, original.childrenPos), LAMBDA replacement :
            /\ original.childrenPos \in 1..Len(buf)
            /\ ~isMoved(replacement.flags)
            /\ isTerminal(original) => isTerminal(replacement)))

\* C22 for the runs in which every call returned true and no PtNode was
\* moved more than once.
C22_RedirectOfPtNodesMovedOnce ==
    (~failed /\ \A p \in MovedPtNodes(buf) : ~isMoved(Cell(buf, RawPtNode(buf, p).parentPos)) /\ ~isMoved(Cell(buf, RawPtNode(buf, p).childrenPos)))
    => C22_RedirectReachesTheReplacement

\* C23: addUnigramWord of a word whose PtNode is already terminal returns
\* true and changes one cell of the buffer, the probability field of that
\* PtNode, which holds the new probability: the tail stays where it was, no
\* PtNode is newly marked moved and the word's terminal position is the same.
C23_ProbabilityOfATerminalIsOverwrittenInPlace ==
    Let(getTerminalNodePositionOfWord(prevBuf, lastOp.word0), LAMBDA terminalPos :
        (lastOp.kind = "addUnigramWord" /\ terminalPos # NOT_A_VALID_WORD_POS /\ isTerminal(fetchNodeInfoFromBuffer(prevBuf, terminalPos))) =>
            /\ lastOp.result
            /\ buf = [prevBuf EXCEPT ![fetchNodeInfoFromBuffer(prevBuf, terminalPos).probabilityFieldPos] = lastOp.probability]
            /\ TailPosition(buf) = TailPosition(prevBuf)
            /\ MovedPtNodes(buf) = MovedPtNodes(prevBuf)
            /\ getTerminalNodePositionOfWord(buf, lastOp.word0) = terminalPos
            /\ fetchNodeInfoFromBuffer(buf, terminalPos).probability = lastOp.probability)

\* The probability of a word of the dictionary has been changed, in a buffer
\* that holds PtNodes marked moved.
C23_Witness ==
    /\ lastOp.kind = "addUnigramWord"
    /\ getTerminalNodePositionOfWord(prevBuf, lastOp.word0) # NOT_A_VALID_WORD_POS
    /\ isTerminal(fetchNodeInfoFromBuffer(prevBuf, getTerminalNodePositionOfWord(prevBuf, lastOp.word0)))
    /\ fetchNodeInfoFromBuffer(prevBuf, getTerminalNodePositionOfWord(prevBuf, lastOp.word0)).probability # lastOp.probability
    /\ MovedPtNodes(prevBuf) # {}
    /\ buf # prevBuf

\* The PtNodes of the PtNode array chain at arrayPos, in reading order.
RECURSIVE PtNodesFrom(_, _, _)
PtNodesFrom(b, rs, fuel) == IF isEnd(rs) \/ fuel = 0 THEN <<>> ELSE <<rs.node>> \o PtNodesFrom(b, readNextSiblingNode(b, rs), fuel - 1)

\* addUnigramWord was called with a word whose code points end at a PtNode
\* that was not terminal, and returned true.
ExactMatchAtNonTerminal ==
    /\ lastOp.kind = "addUnigramWord"
    /\ lastOp.result
    /\ getTerminalNodePositionOfWord(prevBuf, lastOp.word0) # NOT_A_VALID_WORD_POS
    /\ ~isTerminal(fetchNodeInfoFromBuffer(prevBuf, getTerminalNodePositionOfWord(prevBuf, lastOp.word0)))

\* What setPtNodeProbability did to the PtNode original, not terminal before
\* the call, with the copy at movedPos; whether the children position of the
\* parent refers to the copy is left to the two statements below.
NonTerminalMovedAndCopied(original, movedPos) ==
    Let(RawPtNode(buf, original.headPos), LAMBDA redirect :
    Let(RawPtNode(buf, movedPos), LAMBDA copy :
        /\ movedPos = TailPosition(prevBuf)
        /\ isMoved(redirect.flags)
        /\ redirect.parentPos = movedPos
        /\ redirect.bigramLinkedNodePos = movedPos
        /\ ~isMoved(copy.flags) /\ ~isDeleted(copy.flags)
        /\ isTerminal(copy)
        /\ copy.probability = lastOp.probability
        /\ copy.codePoints = original.codePoints
        /\ copy.childrenPos = original.childrenPos
        /\ copy.parentPos = original.parentPos
        /\ copy.bigramsPos = NOT_A_DICT_POS /\ original.bigramsPos = NOT_A_DICT_POS
        /\ hasShortcutTargets(copy.flags) = hasShortcutTargets(original.flags)
        /\ ShortcutListAt(buf, copy.shortcutPos) = ShortcutListAt(prevBuf, original.shortcutPos)
        /\ SubSeq(buf, 1, Len(prevBuf)) = [i \in 1..Len(prevBuf) |-> IF i \in original.headPos..original.childrenPosFieldPos \/ \E c \in 1..Len(PtNodesFrom(prevBuf, initWithNodeArrayPos(prevBuf, original.childrenPos), MaxWalk)) : i = PtNodesFrom(prevBuf, initWithNodeArrayPos(prevBuf, original.childrenPos), MaxWalk)[c].headPos + 1 THEN buf[i] ELSE prevBuf[i]]
        /\ Let(PtNodesFrom(buf, initWithNodeArrayPos(buf, copy.childrenPos), MaxWalk), LAMBDA children : \A c \in 1..Len(children) : children[c].parentPos = movedPos)
        /\ getTerminalNodePositionOfWord(buf, lastOp.word0) = movedPos))

\* C24 as stated: the PtNode is marked moved, a terminal copy with the new
\* probability and the same code points, children, bigrams and shortcuts is
\* appended at the tail, and the children position of the parent PtNode is
\* the position of the copy.
C24_ParentPointsAtTheCopy ==
    ExactMatchAtNonTerminal =>
        Let(fetchNodeInfoFromBuffer(prevBuf, getTerminalNodePositionOfWord(prevBuf, lastOp.word0)), LAMBDA original :
            /\ NonTerminalMovedAndCopied(original, Len(prevBuf) + 1)
            /\ original.parentPos # NOT_A_DICT_POS => fetchNodeInfoFromBuffer(buf, original.parentPos).childrenPos = Len(prevBuf) + 1)

\* C24, amended: the PtNode is marked moved with a redirect to the copy, a
\* terminal copy with the new probability and the same code points, children,
\* bigrams and shortcuts is appended at the tail, the children get the copy
\* as their parent, and the parent PtNode keeps its children position: the
\* PtNode array it refers to still holds the PtNode marked moved.
C24_ParentKeepsItsChildrenPosition ==
    ExactMatchAtNonTerminal =>
        Let(fetchNodeInfoFromBuffer(prevBuf, getTerminalNodePositionOfWord(prevBuf, lastOp.word0)), LAMBDA original :
            /\ NonTerminalMovedAndCopied(original, Len(prevBuf) + 1)
            /\ original.parentPos # NOT_A_DICT_POS =>
                   /\ fetchNodeInfoFromBuffer(buf, original.parentPos).childrenPos = fetchNodeInfoFromBuffer(prevBuf, original.parentPos).childrenPos
                   /\ fetchNodeInfoFromBuffer(buf, original.parentPos).childrenPos # Len(prevBuf) + 1)

\* A PtNode that was not terminal and has a parent PtNode, children and a
\* shortcut list has been given a probability.
C24_Witness ==
    /\ ExactMatchAtNonTerminal
    /\ Let(fetchNodeInfoFromBuffer(prevBuf, getTerminalNodePositionOfWord(prevBuf, lastOp.word0)), LAMBDA original :
           original.parentPos # NOT_A_DICT_POS /\ hasChildren(original) /\ Len(ShortcutListAt(prevBuf, original.shortcutPos)) > 1)

\* No PtNode of the trie shares a proper part of its code points with the word.
NoSplit == [node |-> InvalidPtNode, k |-> 0, matched |-> 0]

\* The number of leading code points of cps that word has from matched on.
SharedCodePointCount(cps, word, matched) == Cardinality({j \in 1..Len(cps) : \A i \in 1..j : matched + i <= Len(word) /\ cps[i] = word[matched + i]})

\* The PtNode on the path of word that matches word on its first k code
\* points only, 0 < k < its number of code points, after matched code points
\* of the PtNodes above it; NoSplit when the path has no such PtNode.
RECURSIVE SplitOf(_, _, _, _)
SplitOf(b, rs, word, fuel) ==
    IF isEnd(rs) \/ fuel = 0 THEN NoSplit
    ELSE Let(SharedCodePointCount(rs.node.codePoints, word, rs.prevTotal), LAMBDA k :
             IF k = 0 THEN SplitOf(b, readNextSiblingNode(b, rs), word, fuel - 1)
             ELSE IF k < Len(rs.node.codePoints) THEN [node |-> rs.node, k |-> k, matched |-> rs.prevTotal]
             ELSE IF Len(word) = rs.prevTotal + k \/ ~hasChildren(rs.node) THEN NoSplit
             ELSE SplitOf(b, readChildNode(b, rs), word, fuel - 1))

\* The valid entries of the bigram list of node, as (target, probability),
\* a target at position from being read as position to.
BigramListOf(b, node, from, to) ==
    Let(ValidBigrams(b, node), LAMBDA entries : [i \in 1..Len(entries) |-> <<IF entries[i].bigramPos = from THEN to ELSE entries[i].bigramPos, entries[i].probability>>])

\* The split of the PtNode sp.node after sp.k code points, for word with the
\* probability given: what the buffer holds from firstPos on.
SplitInTwo(sp, word, probability, firstPos) ==
    Let(RawPtNode(buf, firstPos), LAMBDA first :
    Let(PtNodesFrom(buf, initWithNodeArrayPos(buf, first.childrenPos), MaxWalk), LAMBDA parts :
    Let(Len(sp.node.codePoints), LAMBDA N :
        /\ isMoved(buf[sp.node.headPos])
        /\ ~isMoved(first.flags) /\ ~isDeleted(first.flags)
        /\ first.codePoints = SubSeq(sp.node.codePoints, 1, sp.k)
        /\ isTerminal(first) <=> Len(word) = sp.matched + sp.k
        /\ isTerminal(first) => first.probability = probability
        /\ Len(parts) = (IF Len(word) > sp.matched + sp.k THEN 2 ELSE 1)
        /\ parts[1].codePoints = SubSeq(sp.node.codePoints, sp.k + 1, N)
        /\ Len(parts[1].codePoints) = N - sp.k
        /\ isTerminal(parts[1]) = isTerminal(sp.node)
        /\ parts[1].probability = sp.node.probability
        /\ parts[1].childrenPos = sp.node.childrenPos
        /\ BigramListOf(buf, parts[1], NOT_A_DICT_POS, NOT_A_DICT_POS) = BigramListOf(prevBuf, sp.node, sp.node.headPos, parts[1].headPos)
        /\ hasShortcutTargets(parts[1].flags) = hasShortcutTargets(sp.node.flags)
        /\ ShortcutListAt(buf, parts[1].shortcutPos) = ShortcutListAt(prevBuf, sp.node.shortcutPos)
        /\ parts[1].parentPos = firstPos
        /\ Len(word) > sp.matched + sp.k =>
               /\ parts[2].codePoints = SubSeq(word, sp.matched + sp.k + 1, Len(word))
               /\ isTerminal(parts[2])
               /\ parts[2].probability = probability
               /\ parts[2].parentPos = firstPos
               /\ ~hasChildren(parts[2]))))

\* C25: when addUnigramWord returns true for a word that parts from a PtNode
\* of N code points after k of them, the original PtNode is marked moved and
\* the tail holds a first part with the k shared code points, terminal with
\* the new probability exactly when the word ends there, and under it a
\* second part with the other N - k code points and the original's
\* probability, children, bigram list and shortcut list, followed by a
\* sibling with the rest of the word and the new probability when the word
\* is longer than the shared part.
C25_SplitOfAPtNode ==
    Let(SplitOf(prevBuf, initWithNodeArrayPos(prevBuf, getRootPosition), lastOp.word0, MaxWalk), LAMBDA sp :
        (lastOp.kind = "addUnigramWord" /\ lastOp.result /\ sp.k > 0) => SplitInTwo(sp, lastOp.word0, lastOp.probability, Len(prevBuf) + 1))

\* A PtNode with a bigram list and a shortcut list has been split.
C25_Witness ==
    Let(SplitOf(prevBuf, initWithNodeArrayPos(prevBuf, getRootPosition), lastOp.word0, MaxWalk), LAMBDA sp :
        /\ lastOp.kind = "addUnigramWord" /\ lastOp.result /\ sp.k > 0
        /\ ValidBigrams(prevBuf, sp.node) # <<>>
        /\ Len(ShortcutListAt(prevBuf, sp.node.shortcutPos)) > 1)

\* addBigramWords was called and returned true.
BigramAdded == lastOp.kind = "addBigramWords" /\ lastOp.result

\* C26 as stated: when the PtNode of word0 already has a bigram list, a
\* successful addBigramWords leaves it unmoved where it is and appends no
\* copy, the buffer growing by one bigram entry at most; the PtNode is marked
\* moved only when it had no bigram list.
C26_SourceWithBigramListStaysInPlace ==
    Let(fetchNodeInfoFromBuffer(prevBuf, getTerminalNodePositionOfWord(prevBuf, lastOp.word0)), LAMBDA source :
        BigramAdded =>
            IF source.bigramsPos # NOT_A_DICT_POS
            THEN /\ ~isMoved(buf[source.headPos])
                 /\ getTerminalNodePositionOfWord(buf, lastOp.word0) = source.headPos
                 /\ Len(buf) <= Len(prevBuf) + 2
            ELSE isMoved(buf[source.headPos]))

\* The bigram list old with the probability of its first entry for target
\* replaced or, when it has none, with an entry added at its end, read at
\* the position readAt.
WithBigramEntry(old, target, readAt, probability) ==
    Let({i \in 1..Len(old) : old[i][1] = target}, LAMBDA hits :
        IF hits = {} THEN old \o << <<readAt, probability>> >>
        ELSE [i \in 1..Len(old) |-> IF i = CHOOSE h \in hits : \A g \in hits : h <= g THEN <<target, probability>> ELSE old[i]])

\* C26, amended: a successful addBigramWords marks the PtNode of word0 as
\* moved, whether it had a bigram list or not, and appends at the tail a copy
\* with its code points, probability, children and parent, whose bigram list
\* is the list of the original with the entry for word1 updated or added.
\* The entry looked for is one whose target is now at the position looked up
\* for word1: when word1 is word0, that PtNode has just been moved, no entry
\* refers to it any more and one is added.
C26_SourceIsAlwaysMoved ==
    Let(fetchNodeInfoFromBuffer(prevBuf, getTerminalNodePositionOfWord(prevBuf, lastOp.word0)), LAMBDA source :
    Let(RawPtNode(buf, Len(prevBuf) + 1), LAMBDA copy :
    Let(getTerminalNodePositionOfWord(prevBuf, lastOp.word1), LAMBDA word1Pos :
        BigramAdded =>
            /\ isMoved(buf[source.headPos])
            /\ RawPtNode(buf, source.headPos).parentPos = copy.headPos
            /\ getTerminalNodePositionOfWord(buf, lastOp.word0) = copy.headPos
            /\ ~isMoved(copy.flags) /\ ~isDeleted(copy.flags)
            /\ copy.codePoints = source.codePoints
            /\ isTerminal(copy) = isTerminal(source)
            /\ copy.probability = source.probability
            /\ copy.childrenPos = source.childrenPos
            /\ copy.parentPos = source.parentPos
            /\ BigramListOf(buf, copy, NOT_A_DICT_POS, NOT_A_DICT_POS)
                   = WithBigramEntry(BigramListOf(prevBuf, source, source.headPos, copy.headPos), word1Pos, IF word1Pos = source.headPos THEN copy.headPos ELSE word1Pos, lastOp.probability))))

\* A bigram has been added to a word that had a bigram list without an
\* entry for the new target.
C26_Witness ==
    Let(fetchNodeInfoFromBuffer(prevBuf, getTerminalNodePositionOfWord(prevBuf, lastOp.word0)), LAMBDA source :
        /\ BigramAdded
        /\ ValidBigrams(prevBuf, source) # <<>>
        /\ \A i \in 1..Len(ValidBigrams(prevBuf, source)) : ValidBigrams(prevBuf, source)[i].bigramPos # getTerminalNodePositionOfWord(prevBuf, lastOp.word1))

\* The last query was answered from the BigramMap cached for its word
\* position.
AnsweredFromCache == lastQuery.asked /\ lastQuery.wordPosition \in DOMAIN mBigramMaps

\* C27: a query answered from a cached BigramMap returns
\* computeProbabilityForBigram of the unigram probability and the probability
\* of an entry for the next word position when the bigram list of the word
\* has one, and backoff of the unigram probability otherwise, a next word
\* position that only shares its bloom filter bit with a target included;
\* and every target of a cached hash map has its bit set in the bloom filter
\* of that map.
C27_CachedAnswerAndBloomFilter ==
    /\ \A p \in DOMAIN mBigramMaps : \A t \in DOMAIN mBigramMaps[p].mBigramMap : BloomFilterIndex(t) \in mBigramMaps[p].mBloomFilter
    /\ AnsweredFromCache =>
           Let(BigramsOf(buf, getBigramsPositionOfNode(buf, lastQuery.wordPosition)), LAMBDA entries :
               IF \E i \in 1..Len(entries) : entries[i].bigramPos = lastQuery.nextWordPosition
               THEN \E i \in 1..Len(entries) :
                        /\ entries[i].bigramPos = lastQuery.nextWordPosition
                        /\ lastQuery.probability = computeProbabilityForBigram(lastQuery.unigramProbability, entries[i].probability)
               ELSE lastQuery.probability = backoff(lastQuery.unigramProbability))

\* A cached BigramMap has been asked about a next word position that is in
\* its bloom filter and not in its hash map, after it answered for a target.
C27_Witness ==
    /\ AnsweredFromCache
    /\ BloomFilterIndex(lastQuery.nextWordPosition) \in mBigramMaps[lastQuery.wordPosition].mBloomFilter
    /\ lastQuery.nextWordPosition \notin DOMAIN mBigramMaps[lastQuery.wordPosition].mBigramMap
    /\ lastQuery.probability = backoff(lastQuery.unigramProbability)
    /\ lastQuery.probability # computeProbabilityForBigram(lastQuery.unigramProbability, mBigramMaps[lastQuery.wordPosition].mBigramMap[lastQuery.nextWordPosition - BIGRAM_FILTER_MODULO])

\* The last call of the search was the one named.
Called(name) == answer # NoAnswer /\ answer[1] = name

\* The probability of a DicNode composed without the MultiBigramMap: from
\* the bigram list of the previous word when both positions are in the
\* dictionary and a map is supplied, the backed-off unigram otherwise.
ComposedProbabilityOf(b, dicNode, multiBigramMap) ==
    IF dicNode.ptNodePos # NOT_A_DICT_POS /\ dicNode.prevWordTerminalPtNodePos # NOT_A_DICT_POS /\ multiBigramMap
    THEN readBigramProbabilityFromBinaryDictionary(b, dicNode.prevWordTerminalPtNodePos, dicNode.ptNodePos, dicNode.probability)
    ELSE backoff(dicNode.probability)

\* C28: getBigramNodeImprobability returns MAX_VALUE_FOR_WEIGHTING for a
\* DicNode that has multiple words and is not a valid multiple word
\* suggestion, the MultiBigramMap receiving no call and staying as it was;
\* for every other DicNode it returns MAX_PROBABILITY minus the composed
\* probability of the DicNode, over MAX_PROBABILITY.
C28_CostOfADicNode ==
    Called("getBigramNodeImprobability") =>
        IF answer[2].hasMultipleWords /\ ~answer[2].isValidMultipleWordSuggestion
        THEN /\ answer[4] = Quotient(MAX_VALUE_FOR_WEIGHTING, 1)
             /\ answer[5] = <<>>
             /\ answer[7] = answer[6]
        ELSE answer[4] = Quotient(MAX_PROBABILITY - ComposedProbabilityOf(buf, answer[2], answer[3]), MAX_PROBABILITY)

\* A DicNode of a previous word and a word of the dictionary that is not a
\* valid multiple word suggestion has been rejected, with a MultiBigramMap
\* supplied that has not cached the previous word.
C28_Witness ==
    /\ Called("getBigramNodeImprobability")
    /\ answer[2].hasMultipleWords /\ ~answer[2].isValidMultipleWordSuggestion
    /\ answer[2].ptNodePos # NOT_A_DICT_POS /\ answer[2].prevWordTerminalPtNodePos # NOT_A_DICT_POS /\ answer[2].isTerminal
    /\ answer[3]
    /\ answer[2].prevWordTerminalPtNodePos \notin DOMAIN answer[6]
    /\ answer[4] = Quotient(MAX_VALUE_FOR_WEIGHTING, 1)

\* C29: getBigramNodeProbability calls the MultiBigramMap, once and with the
\* two positions and the probability of the DicNode, exactly when both
\* positions differ from NOT_A_DICT_POS and a map is supplied, and returns
\* its answer; in every other case it returns the policy's getProbability
\* of the unigram probability and NOT_A_PROBABILITY, which is the backed-off
\* unigram probability, and the map stays as it was.
C29_MultiBigramMapIsConsultedExactlyWhen ==
    Called("getBigramNodeProbability") =>
        IF answer[2].ptNodePos # NOT_A_DICT_POS /\ answer[2].prevWordTerminalPtNodePos # NOT_A_DICT_POS /\ answer[3]
        THEN /\ answer[5] = << <<answer[2].prevWordTerminalPtNodePos, answer[2].ptNodePos, answer[2].probability>> >>
             /\ answer[4] = getBigramProbability(answer[6], buf, answer[2].prevWordTerminalPtNodePos, answer[2].ptNodePos, answer[2].probability).probability
             /\ answer[7] = getBigramProbability(answer[6], buf, answer[2].prevWordTerminalPtNodePos, answer[2].ptNodePos, answer[2].probability).mBigramMaps
        ELSE /\ answer[5] = <<>>
             /\ answer[4] = getProbability(answer[2].probability, NOT_A_PROBABILITY)
             /\ answer[4] = backoff(answer[2].probability)
             /\ answer[7] = answer[6]

\* The MultiBigramMap has been consulted for a terminal DicNode that is a
\* next word of its previous word, and has cached the previous word.
C29_Witness ==
    /\ Called("getBigramNodeProbability")
    /\ answer[5] # <<>>
    /\ answer[2].isTerminal
    /\ answer[7] # answer[6]
    /\ answer[4] # backoff(answer[2].probability)

\* The last count entries of a vector.
LastOf(vector, count) == SubSeq(vector, Len(vector) - count + 1, Len(vector))

\* C30: getAllChildDicNodes leaves the vector as it is for a DicNode whose
\* total input size exceeds the limit; otherwise, for a DicNode that is not
\* a leaving node it adds one DicNode, of the same PtNode and with the next
\* code point of the PtNode taken, and for a leaving node it adds one
\* DicNode for each PtNode of the children array, in reading order, with
\* the first code point of that PtNode taken.
C30_ChildrenOfADicNode ==
    Called("getAllChildDicNodes") =>
        Let(answer[2], LAMBDA dicNode :
        Let(IF dicNode.hasChildren THEN PtNodesFrom(buf, initWithNodeArrayPos(buf, dicNode.childrenPos), MaxWalk) ELSE <<>>, LAMBDA ptNodes :
            /\ SubSeq(answer[4], 1, Len(answer[3])) = answer[3]
            /\ IF isTotalInputSizeExceedingLimit(dicNode)
               THEN answer[4] = answer[3]
               ELSE IF ~isLeavingNode(dicNode)
               THEN /\ Len(answer[4]) = Len(answer[3]) + 1
                    /\ LastOf(answer[4], 1)[1].ptNodePos = dicNode.ptNodePos
                    /\ LastOf(answer[4], 1)[1].depth = dicNode.depth + 1
                    /\ LastOf(answer[4], 1)[1].nodeCodePoint = fetchNodeInfoFromBuffer(buf, dicNode.ptNodePos).codePoints[Len(dicNode.codePoints) - (dicNode.leavingDepth - dicNode.depth) + 1]
                    /\ [LastOf(answer[4], 1)[1] EXCEPT !.depth = dicNode.depth, !.nodeCodePoint = dicNode.nodeCodePoint] = dicNode
               ELSE /\ Len(answer[4]) = Len(answer[3]) + Len(ptNodes)
                    /\ \A i \in 1..Len(ptNodes) :
                           Let(LastOf(answer[4], Len(ptNodes))[i], LAMBDA child :
                               /\ child.ptNodePos = ptNodes[i].headPos
                               /\ child.childrenPos = ptNodes[i].childrenPos
                               /\ child.probability = ptNodes[i].probability
                               /\ child.depth = dicNode.depth + 1
                               /\ child.leavingDepth = dicNode.depth + Len(ptNodes[i].codePoints)
                               /\ child.nodeCodePoint = ptNodes[i].codePoints[1]
                               /\ child.prevWordTerminalPtNodePos = dicNode.prevWordTerminalPtNodePos)))

\* A DicNode in the middle of a PtNode of two code points has got its
\* passing child, in a vector that held a DicNode already.
C30_Witness ==
    /\ Called("getAllChildDicNodes")
    /\ ~isTotalInputSizeExceedingLimit(answer[2])
    /\ ~isLeavingNode(answer[2])
    /\ answer[3] # <<>>
    /\ Len(answer[4]) = Len(answer[3]) + 1
    /\ answer[4][Len(answer[4])].nodeCodePoint = 2

\* The head positions stored in the PtNodeArray at arrayPos and in the
\* arrays its forward links lead to, as they are in the buffer.
RECURSIVE StoredSiblingChain(_, _, _)
StoredSiblingChain(b, arrayPos, fuel) ==
    IF arrayPos < 1 \/ arrayPos > Len(b) \/ fuel = 0 THEN <<>>
    ELSE Let(PtNodesStoredFrom(b, arrayPos + 1, Cell(b, arrayPos)), LAMBDA heads :
         Let(IF heads = <<>> THEN arrayPos + 1 ELSE RawPtNode(b, heads[Len(heads)]).siblingPos, LAMBDA forwardLinkFieldPos :
             heads \o (IF ReadOffsetField(b, forwardLinkFieldPos) = NOT_A_DICT_POS THEN <<>> ELSE StoredSiblingChain(b, ReadOffsetField(b, forwardLinkFieldPos), fuel - 1))))

\* Where the PtNode stored at pos is now: the end of its chain of moves.
RECURSIVE MovedTo(_, _, _)
MovedTo(b, pos, fuel) == IF fuel = 0 \/ ~isMoved(Cell(b, pos)) THEN pos ELSE MovedTo(b, RawPtNode(b, pos).parentPos, fuel - 1)

\* The live children of the PtNode at nodePos: the PtNodes of its sibling
\* chain where they are now, those marked deleted left out.
LiveChildren(b, nodePos) ==
    Let(fetchNodeInfoFromBuffer(b, nodePos), LAMBDA parent :
        IF ~hasChildren(parent) THEN <<>>
        ELSE Let(StoredSiblingChain(b, parent.childrenPos, MaxWalk), LAMBDA stored :
                 SelectSeq([i \in 1..Len(stored) |-> MovedTo(b, stored[i], MaxWalk)], LAMBDA pos : ~isDeleted(Cell(b, pos)))))

\* C31: for every PtNode that a word of the dictionary ends at,
\* createAndGetAllChildNodes reports the live children and nothing else,
\* each once: a PtNode marked deleted is not reported, a moved PtNode is
\* reported where it was moved to, and a PtNode without children has none.
C31_EveryLiveChildExactlyOnce ==
    \A nodePos \in WordPositions(buf) :
        Let(createAndGetAllChildNodes(buf, nodePos), LAMBDA children :
            /\ [i \in 1..Len(children) |-> children[i].pos] = LiveChildren(buf, nodePos)
            /\ \A i, j \in 1..Len(children) : children[i].pos = children[j].pos => i = j)

\* C32: getProbability returns NOT_A_PROBABILITY for a unigram probability
\* that is NOT_A_PROBABILITY, the unigram probability less 8 and not below 0
\* when only the bigram probability is NOT_A_PROBABILITY, and the composed
\* bigram probability otherwise; getUnigramProbabilityOfPtNode returns
\* NOT_A_PROBABILITY for NOT_A_VALID_WORD_POS and for a PtNode that is
\* deleted, blacklisted, not a word or not terminal, and the backed-off
\* probability stored in the PtNode otherwise.
C32_ProbabilityOfAPtNode ==
    /\ Called("getProbability") =>
           answer[4] = (IF answer[2] = NOT_A_PROBABILITY THEN NOT_A_PROBABILITY
                        ELSE IF answer[3] = NOT_A_PROBABILITY THEN Max(answer[2] - 8, 0)
                        ELSE computeProbabilityForBigram(answer[2], answer[3]))
    /\ Called("getUnigramProbabilityOfPtNode") =>
           IF answer[2] = NOT_A_VALID_WORD_POS THEN answer[3] = NOT_A_PROBABILITY
           ELSE Let(RawPtNode(buf, MovedTo(buf, answer[2], MaxWalk)), LAMBDA ptNode :
                    IF isDeleted(ptNode.flags) \/ HasBit(ptNode.flags, FLAG_IS_BLACKLISTED) \/ HasBit(ptNode.flags, FLAG_IS_NOT_A_WORD) \/ ~isTerminal(ptNode)
                    THEN answer[3] = NOT_A_PROBABILITY
                    ELSE answer[3] = Max(ptNode.probability - 8, 0) /\ answer[3] # NOT_A_PROBABILITY)

\* The probability of a blacklisted word that has a probability stored has
\* been asked for.
C32_Witness ==
    /\ Called("getUnigramProbabilityOfPtNode")
    /\ answer[2] # NOT_A_VALID_WORD_POS
    /\ HasBit(RawPtNode(buf, MovedTo(buf, answer[2], MaxWalk)).flags, FLAG_IS_BLACKLISTED)
    /\ RawPtNode(buf, MovedTo(buf, answer[2], MaxWalk)).probability = InitialProbability
    /\ answer[3] = NOT_A_PROBABILITY

\* The index at which the loop of addWordBigram stops for the result list
\* outputs, counted from 0; MAX_RESULTS when the word is not inserted.
RECURSIVE InsertionIndex(_, _, _, _)
InsertionIndex(outputs, word, probability, insertAt) ==
    IF insertAt >= MAX_RESULTS THEN MAX_RESULTS
    ELSE IF probability > outputs[insertAt + 1].probability
            \/ (outputs[insertAt + 1].probability = probability /\ Len(word) < Len(outputs[insertAt + 1].codePoints)) THEN insertAt
    ELSE InsertionIndex(outputs, word, probability, insertAt + 1)

\* The cells of bigramCodePoints, counted from 0, that addWordBigram writes
\* for the slot insertAt: one for each of the length code points copied and
\* the one after them for the terminating 0.
CellsWrittenForSlot(insertAt, length) == {insertAt * MAX_WORD_LENGTH + k : k \in 0..length}

\* C33: every cell addWordBigram writes for the slot it inserts at is one of
\* the MAX_WORD_LENGTH cells of that slot and a cell of the output array of
\* MAX_RESULTS slots, and the cell word[length] it sets to 0 is one of the
\* MAX_WORD_LENGTH cells of the word buffer.
C33_WritesStayInsideTheSlot ==
    lastOp.kind = "addWordBigram" =>
        Let(InsertionIndex(answer[1], lastOp.word0, lastOp.probability, 0), LAMBDA insertAt :
            /\ Len(lastOp.word0) \in 0..(MAX_WORD_LENGTH - 1)
            /\ insertAt < MAX_RESULTS =>
                   \A cell \in CellsWrittenForSlot(insertAt, Len(lastOp.word0)) :
                       /\ cell \in (insertAt * MAX_WORD_LENGTH)..(insertAt * MAX_WORD_LENGTH + MAX_WORD_LENGTH - 1)
                       /\ cell \in 0..(MAX_RESULTS * MAX_WORD_LENGTH - 1))

\* The same for the words shorter than MAX_WORD_LENGTH only.
C33_ShorterWordsStayInsideTheSlot ==
    (lastOp.kind = "addWordBigram" /\ Len(lastOp.word0) < MAX_WORD_LENGTH) =>
        Let(InsertionIndex(answer[1], lastOp.word0, lastOp.probability, 0), LAMBDA insertAt :
            insertAt < MAX_RESULTS =>
                /\ answer[2][insertAt + 1].codePoints = lastOp.word0
                /\ \A cell \in CellsWrittenForSlot(insertAt, Len(lastOp.word0)) :
                       /\ cell \in (insertAt * MAX_WORD_LENGTH)..(insertAt * MAX_WORD_LENGTH + MAX_WORD_LENGTH - 1)
                       /\ cell \in 0..(MAX_RESULTS * MAX_WORD_LENGTH - 1))

\* The position of the bigram list getPredictions reads for prevWord: the
\* one of the word as it is, or else the one of the word in lower case.
BigramListAfterRetry(b, prevWord) ==
    IF getBigramListPositionForWord(b, prevWord) # NOT_A_DICT_POS THEN getBigramListPositionForWord(b, prevWord)
    ELSE getBigramListPositionForWord(b, [i \in 1..Len(prevWord) |-> IF prevWord[i] \in 65..90 THEN prevWord[i] + 32 ELSE prevWord[i]])

\* C34: when the previous word, also in lower case, is absent or has no
\* bigram list, getPredictions returns 0 and leaves the outputs as they
\* were; when something was typed, the word of every output slot written
\* starts, base lower case taken on both sides, with one of the first
\* MAX_ALTERNATIVES code points typed; when nothing was typed, every entry of
\* the list is counted and every successor is output unless MAX_RESULTS
\* successors rank at least as high.
C34_OnlySuccessorsOfTheLetterTyped ==
    answer # NoAnswer =>
        Let(BigramListAfterRetry(buf, answer[2]), LAMBDA pos :
            /\ pos = NOT_A_DICT_POS => answer[1] = [bigramCount |-> 0, outputs |-> NoPredictions]
            /\ Len(answer[3]) >= 1 =>
                   \A k \in 1..MAX_RESULTS :
                       answer[1].outputs[k] # NoPredictions[k] =>
                           /\ answer[1].outputs[k].codePoints # <<>>
                           /\ \E j \in 1..Min(MAX_ALTERNATIVES, Len(answer[3])) :
                                  toBaseLowerCase(answer[1].outputs[k].codePoints[1]) = toBaseLowerCase(answer[3][j])
            /\ (Len(answer[3]) = 0 /\ pos # NOT_A_DICT_POS) =>
                   Let(BigramsOf(buf, pos), LAMBDA entries :
                       /\ answer[1].bigramCount = Min(Len(entries), MAX_RESULTS)
                       /\ \A i \in 1..Len(entries) :
                              Let(getCodePointsAndProbability(buf, entries[i].bigramPos, MAX_WORD_LENGTH), LAMBDA successor :
                                  successor.codePoints # <<>> =>
                                      \/ \E k \in 1..MAX_RESULTS : answer[1].outputs[k].codePoints = successor.codePoints
                                      \/ \A k \in 1..MAX_RESULTS : answer[1].outputs[k].probability >= computeProbabilityForBigram(successor.probability, entries[i].probability))))

\* A was typed after the previous word AB, which the lower-case search finds
\* as ab: of the successors a and b of ab, a is output and b is not.
C34_Witness ==
    /\ answer # NoAnswer
    /\ answer[2] = <<65, 66>> /\ answer[3] = <<65>>
    /\ getBigramListPositionForWord(buf, answer[2]) = NOT_A_DICT_POS
    /\ \E i \in 1..Len(BigramsOf(buf, BigramListAfterRetry(buf, answer[2]))) :
           getCodePointsAndProbability(buf, BigramsOf(buf, BigramListAfterRetry(buf, answer[2]))[i].bigramPos, MAX_WORD_LENGTH).codePoints = <<98>>
    /\ \E k \in 1..MAX_RESULTS : answer[1].outputs[k].codePoints = <<97>>
    /\ \A k \in 1..MAX_RESULTS : answer[1].outputs[k].codePoints # <<98>>

\* Whether the lookup finds the word y in b, and the probability stored in
\* the PtNode it finds.
FoundByLookup(b, y) == getTerminalNodePositionOfWord(b, y) # NOT_A_VALID_WORD_POS

ProbabilityStoredFor(b, y) == IF FoundByLookup(b, y) THEN fetchNodeInfoFromBuffer(b, getTerminalNodePositionOfWord(b, y)).probability ELSE NOT_A_PROBABILITY

\* Whether the lookup finds a terminal PtNode for y.
FoundAsAWord(b, y) == FoundByLookup(b, y) /\ isTerminal(fetchNodeInfoFromBuffer(b, getTerminalNodePositionOfWord(b, y)))

\* C35: addUnigramWord(x, p) leaves unchanged, for every word y other than
\* x, whether the lookup finds y and the probability stored for y.
C35_OtherWordsUndisturbed ==
    lastOp.kind = "addUnigramWord" =>
        \A y \in (Words \cup DeepWords) \ {lastOp.word0} :
            /\ FoundByLookup(buf, y) = FoundByLookup(prevBuf, y)
            /\ ProbabilityStoredFor(buf, y) = ProbabilityStoredFor(prevBuf, y)

\* The same for every call, whatever it returned, a word being found when
\* the lookup gives a terminal PtNode.
C35_OtherWordsStayWords ==
    lastOp.kind = "addUnigramWord" =>
        \A y \in (Words \cup DeepWords) \ {lastOp.word0} :
            /\ FoundAsAWord(buf, y) = FoundAsAWord(prevBuf, y)
            /\ ProbabilityStoredFor(buf, y) = ProbabilityStoredFor(prevBuf, y)

\* The live PtNodes of the sibling chain that starts with the PtNode array
\* at arrayPos: the PtNodes of the chained arrays, each one where it was
\* moved to, the deleted ones left out.
LiveSiblingChain(b, arrayPos) ==
    Let(StoredSiblingChain(b, arrayPos, MaxWalk), LAMBDA stored :
        SelectSeq([i \in 1..Len(stored) |-> MovedTo(b, stored[i], MaxWalk)], LAMBDA pos : ~isDeleted(Cell(b, pos))))

\* The sibling chains of b: the one of the root and the ones of the children
\* of every PtNode a lookup ends at.
SiblingChains(b) ==
    {LiveSiblingChain(b, getRootPosition)}
    \cup {LiveChildren(b, getTerminalNodePositionOfWord(b, w)) : w \in {v \in Words \cup DeepWords : FoundByLookup(b, v)}}

\* C36: in every sibling chain, no two live PtNodes start with the same
\* code point.
C36_SiblingsStartDifferently ==
    \A chain \in SiblingChains(buf) :
        \A i, j \in 1..Len(chain) :
            RawPtNode(buf, chain[i]).codePoints[1] = RawPtNode(buf, chain[j]).codePoints[1] => i = j

\* addUnigramWord has returned true and left a chain of two live PtNodes
\* that goes over a forward link, one of which was moved.
C36_Witness ==
    /\ lastOp.kind = "addUnigramWord" /\ lastOp.result
    /\ \E w \in Words \cup DeepWords :
           /\ FoundByLookup(buf, w)
           /\ Len(LiveChildren(buf, getTerminalNodePositionOfWord(buf, w))) >= 2
           /\ Let(StoredSiblingChain(buf, fetchNodeInfoFromBuffer(buf, getTerminalNodePositionOfWord(buf, w)).childrenPos, MaxWalk), LAMBDA stored :
                  \E i \in 1..Len(stored) : isMoved(Cell(buf, stored[i])))

\* C37: on a dictionary whose buffer is not updatable, addUnigramWord,
\* addBigramWords and removeBigramWords return false, write nothing and
\* leave the buffer and its tail position as they were.
C37_NoUpdateOfANonUpdatableDictionary ==
    (lastOp.kind \in {"addUnigramWord", "addBigramWords", "removeBigramWords"} /\ ~isUpdatable) =>
        /\ ~lastOp.result
        /\ lastLog = <<>>
        /\ buf = prevBuf
        /\ TailPosition(buf) = TailPosition(prevBuf)

\* Each of the three calls has returned false on the dictionary that is not
\* updatable for words with which it returns true on an updatable one.
C37_WitnessOfAdd ==
    /\ ~isUpdatable /\ lastOp.kind = "addUnigramWord" /\ ~lastOp.result
    /\ addUnigramWord(prevBuf, lastOp.word0, lastOp.probability).ok

C37_Witness ==
    /\ ~isUpdatable /\ lastOp.kind \in {"addBigramWords", "removeBigramWords"} /\ ~lastOp.result
    /\ removeBigramWords(prevBuf, lastOp.word0, lastOp.word1).ok
    /\ addBigramWords(prevBuf, lastOp.word0, lastOp.word1, 1).ok

\* The number of code points of src before its first 0, of the first
\* length cells.
LengthUpToFirstZero(src, length) ==
    IF \E i \in 1..length : src[i] = 0 THEN (CHOOSE i \in 1..length : src[i] = 0 /\ \A j \in 1..(i - 1) : src[j] # 0) - 1
    ELSE Max(length, 0)

\* C39: appendTwoWords returns min(n0, MAX_WORD_LENGTH) + min(n1,
\* MAX_WORD_LENGTH - min(n0, MAX_WORD_LENGTH)), n0 and n1 being the lengths
\* of src0 and src1 up to their first 0 code point within length0 and
\* length1 (n1 is 0 for a null src1); this is at most MAX_WORD_LENGTH; dest
\* holds that many code points of src0 and then of src1, and its other cells
\* are as they were.
C39_TwoWordsAppendedWithinTheLimit ==
    Called("appendTwoWords") =>
        Let(Min(LengthUpToFirstZero(answer[2], answer[3]), MAX_WORD_LENGTH), LAMBDA kept0 :
        Let(IF answer[4].isNull THEN 0 ELSE Min(LengthUpToFirstZero(answer[4].codePoints, answer[5]), MAX_WORD_LENGTH - kept0), LAMBDA kept1 :
            /\ answer[6].result = kept0 + kept1
            /\ answer[6].result <= MAX_WORD_LENGTH
            /\ Len(answer[6].dest) = Len(EmptyDest)
            /\ \A i \in 1..kept0 : answer[6].dest[i] = answer[2][i]
            /\ \A i \in 1..kept1 : answer[6].dest[kept0 + i] = answer[4].codePoints[i]
            /\ \A i \in (answer[6].result + 1)..Len(EmptyDest) : answer[6].dest[i] = EmptyDest[i]
            /\ (answer[4].isNull \/ answer[5] = 0) => answer[6].result = kept0))

\* Two words that have more than MAX_WORD_LENGTH code points together were
\* appended: the first one is kept and the second one is cut.
C39_Witness ==
    /\ Called("appendTwoWords")
    /\ LengthUpToFirstZero(answer[2], answer[3]) \in 1..(MAX_WORD_LENGTH - 1)
    /\ ~answer[4].isNull
    /\ LengthUpToFirstZero(answer[2], answer[3]) + LengthUpToFirstZero(answer[4].codePoints, answer[5]) > MAX_WORD_LENGTH
    /\ answer[6].result = MAX_WORD_LENGTH
    /\ answer[6].dest[MAX_WORD_LENGTH] = 2

\* C40: a typing decoder wrapper gets its decoder when it is constructed:
\* one constructed while no factory method is set holds no decoder and
\* returns 0 from getSuggestions whatever factory method is set later, and
\* one constructed while a factory method is set holds the decoder that
\* factory method produced (none when it returned a null pointer) and
\* returns from every getSuggestions what that decoder returns; setting the
\* factory method does not change the decoder of a wrapper that exists.
C40_DecoderBoundAtConstruction ==
    [][/\ sIncrementalDecoderFactoryMethod' # sIncrementalDecoderFactoryMethod => mIncrementalDecoderInterface' = mIncrementalDecoderInterface
       /\ TypingDecoderWrapper => mIncrementalDecoderInterface' = (sIncrementalDecoderFactoryMethod = "returnsDecoder")
       /\ mIncrementalDecoderInterface' # mIncrementalDecoderInterface => TypingDecoderWrapper
       /\ lastOp'.kind = "getSuggestions" =>
              /\ mIncrementalDecoderInterface' = mIncrementalDecoderInterface
              /\ lastOp'.count = (IF mIncrementalDecoderInterface THEN lastOp'.decoderCount ELSE 0)]_vars

\* A wrapper constructed before a factory method was set has returned 0
\* where a decoder would have returned more, a factory method that returns
\* a decoder being set by now.
C40_Witness ==
    /\ lastOp.kind = "getSuggestions"
    /\ sIncrementalDecoderFactoryMethod = "returnsDecoder" /\ ~mIncrementalDecoderInterface
    /\ lastOp.decoderCount = MAX_RESULTS /\ lastOp.count = 0

\* A wrapper constructed after the factory method was set has returned what
\* its decoder returned.
C40_WitnessOfDelegation ==
    /\ lastOp.kind = "getSuggestions"
    /\ mIncrementalDecoderInterface
    /\ lastOp.decoderCount = MAX_RESULTS /\ lastOp.count = MAX_RESULTS

====
